---- MODULE Spec2Model ----
(***************************************************************************)
(* A model of DecentralizedDeliverySim: the grid world (environment.py),   *)
(* the agents (agent.py), the consensus pass (consensus.py), the metric    *)
(* (metrics.py) and the driver loop (main.py).                             *)
(*                                                                         *)
(* Conventions                                                             *)
(*  - a coordinate is a pair <<x, y>> of integers;                         *)
(*  - a Python dict is a sequence of <<key, value>> pairs in insertion     *)
(*    order (assigning to a key that is present keeps its place);          *)
(*  - `agents` maps an agent id (its index in the driver's list) to the    *)
(*    record of the Agent object's fields; `env` is the Environment;       *)
(*  - distances are compared exactly, on squares: sqrt(d2) <= r is         *)
(*    d2 <= r*r, and a distance to a mean sum/n is scaled by n;            *)
(*  - the battery is counted in whole units of which BatteryFull make the  *)
(*    100.0 of a new agent, and one drain_battery call takes a number of   *)
(*    units of DrainUnits (the product of the two random factors);         *)
(*  - the fields that only feed the display (last_positions,               *)
(*    message_cooldown, delivery_attempt, carrying_package, ...) are left  *)
(*    out: no operation of the core reads them.                            *)
(***************************************************************************)
EXTENDS Integers, Sequences, FiniteSets, TLC

VARIABLES
    env,          \* Environment: [size, customers, step_count]
    agents,       \* agent id -> the Agent's fields
    ci,           \* Consensus.update_knowledge: the index of the next receiving agent
    shared,       \* agent id -> the `shared` dict built for it in the pass under way
    pass_start,   \* `agents` as it was when the pass under way began
    op,           \* the operation executed last: <<name, agent id>>
    main          \* the locals of main(): where it stands, step, paused, ...

vars == <<env, agents, ci, shared, pass_start, op, main>>

(***************************************************************************)
(* Bounds of the model and constants of the program                        *)
(***************************************************************************)
FleetSize == 3          \* agents of a synthetic fleet (consensus checks)
GridSize == 5           \* Environment.size (the driver's grid_size is 20)
BatteryFull == 5        \* battery units of a new agent (stands for 100.0)
DrainUnits == {2, 3}    \* the units one drain_battery call can take
MaxEnvSteps == 1        \* move_customers calls of a synthetic world
TickBudget == 1         \* ticks of a run (stands for the 100 of main.py)

ConsensusRange == 5     \* consensus.py: euclidean(agent.pos, other.pos) <= 5
QuorumRadius == 3       \* consensus.py: euclidean(p, avg_pos) < 3
SensingRange == 3       \* agent.py: distance <= 3
LowBatteryPct == 20     \* agent.py: self.battery < 20
Distortion == 5         \* agent.py: distortion_range = (-5, 5)
WindClampMax == 19      \* agent.py: min(int(x), 19) in apply_wind
CustomerPeriod == 5     \* environment.py: step_count % 5 == 0
DriverPeriod == 5       \* main.py: step % 5 == 0
DriverGridSize == 20    \* main.py: grid_size = 20
AgentSpacing == 4       \* main.py: Agent(i, (i*4, i*4), ...)

\* Angles are whole thousandths of a degree.
Degree == 1000
FullTurn == 360 * Degree
TurningRate == 15 * Degree       \* agent.py: turning_rate = 15
\* cos(a) > 0.8 exactly for the angles a < acos(0.8) = 36.8699 degrees, and
\* cos(a) >= 0.2 exactly for a <= acos(0.2) = 78.4630 degrees (0 <= a <= 180)
AcosPoint8 == 36870
AcosPoint2 == 78463

(***************************************************************************)
(* Arithmetic                                                              *)
(***************************************************************************)
Min(a, b) == IF a <= b THEN a ELSE b
Max(a, b) == IF a >= b THEN a ELSE b
Abs(a) == IF a >= 0 THEN a ELSE -a

\* a variant of Clamp that lets the value through
Unclamped(lo, hi, v) == v

\* max(lo, min(hi, v))
Clamp(lo, hi, v) == Max(lo, Min(hi, v))

\* int(num / den), den > 0: truncation toward zero (ndarray.astype(int), int())
TruncDiv(num, den) == IF num >= 0 THEN num \div den ELSE -((-num) \div den)

\* the square of the Euclidean distance of two coordinates
Dist2(p, q) == (p[1] - q[1]) * (p[1] - q[1]) + (p[2] - q[2]) * (p[2] - q[2])

(***************************************************************************)
(* Python dicts                                                            *)
(***************************************************************************)
EmptyDict == <<>>

Keys(d) == {d[i][1] : i \in 1..Len(d)}

Has(d, k) == \E i \in 1..Len(d) : d[i][1] = k

Get(d, k) == d[CHOOSE i \in 1..Len(d) : d[i][1] = k][2]

\* a variant of Put that leaves the dict with the one entry assigned
PutAlone(d, k, v) == <<<<k, v>>>>

\* d[k] = v
Put(d, k, v) ==
    IF Has(d, k)
    THEN [i \in 1..Len(d) |-> IF d[i][1] = k THEN <<k, v>> ELSE d[i]]
    ELSE Append(d, <<k, v>>)

\* d.update(e)
RECURSIVE UpdateFrom(_, _, _)
UpdateFrom(d, e, i) ==
    IF i > Len(e) THEN d ELSE UpdateFrom(Put(d, e[i][1], e[i][2]), e, i + 1)

Update(d, e) == UpdateFrom(d, e, 1)

(***************************************************************************)
(* Agent.share_knowledge                                                   *)
(***************************************************************************)
\* a variant of LowBattery that takes a battery of exactly 20 for a low one
LowBatteryInclusive(b) == b * 100 <= LowBatteryPct * BatteryFull

\* self.battery < 20, the battery being a percentage of BatteryFull
LowBattery(b) == b * 100 < LowBatteryPct * BatteryFull

\* the reports one share_knowledge call can return: the whole knowledge, or
\* (battery < 20 and random.random() < 0.3) the empty dict
ShareKnowledge(ag) ==
    {ag.knowledge} \cup (IF LowBattery(ag.battery) THEN {EmptyDict} ELSE {})

(***************************************************************************)
(* Consensus.update_knowledge                                              *)
(***************************************************************************)
NumAgents(A) == Cardinality(DOMAIN A)

\* a variant of TakesReport that leaves out the agents at exactly the range
TakesReportInside(A, a, o) ==
    /\ Dist2(A[a].pos, A[o].pos) < ConsensusRange * ConsensusRange
    /\ a # o

\* a variant of TakesReport that leaves out the test agent != other
TakesReportAlsoSelf(A, a, o) ==
    Dist2(A[a].pos, A[o].pos) <= ConsensusRange * ConsensusRange

\* distance.euclidean(agent.pos, other.pos) <= 5 and agent != other
TakesReport(A, a, o) ==
    /\ Dist2(A[a].pos, A[o].pos) <= ConsensusRange * ConsensusRange
    /\ a # o

\* the agents that can fail to report to a in this pass
Unreliable(A, a) ==
    {o \in DOMAIN A : TakesReport(A, a, o) /\ LowBattery(A[o].battery)}

\* the loop `for other in self.agents` from index o on: `acc` is `shared`,
\* `fails` the agents whose share_knowledge returns {} this time
RECURSIVE CollectShared(_, _, _, _, _)
CollectShared(A, a, fails, o, acc) ==
    IF o >= NumAgents(A) THEN acc
    ELSE CollectShared(A, a, fails, o + 1,
            IF TakesReport(A, a, o)
            THEN Update(acc, IF o \in fails THEN EmptyDict ELSE A[o].knowledge)
            ELSE acc)

\* the agents with an entry for cid: the rows of `positions`
Holders(A, cid) == {h \in DOMAIN A : Has(A[h].knowledge, cid)}

\* the sum over the holders in S of one axis of their entries for cid
RECURSIVE SumAxis(_, _, _, _)
SumAxis(A, cid, axis, S) ==
    IF S = {} THEN 0
    ELSE LET h == CHOOSE x \in S : TRUE
         IN  Get(A[h].knowledge, cid)[axis] + SumAxis(A, cid, axis, S \ {h})

\* n * np.mean(positions, axis=0), n the number of positions
MeanTimesN(A, cid) ==
    <<SumAxis(A, cid, 1, Holders(A, cid)), SumAxis(A, cid, 2, Holders(A, cid))>>

\* a variant of NearMean that counts the entries at exactly the radius
NearMeanInclusive(p, sum, n) ==
    (n * p[1] - sum[1]) * (n * p[1] - sum[1])
      + (n * p[2] - sum[2]) * (n * p[2] - sum[2])
    <= QuorumRadius * QuorumRadius * n * n

\* distance.euclidean(p, avg_pos) < 3, for avg_pos = sum / n
NearMean(p, sum, n) ==
    (n * p[1] - sum[1]) * (n * p[1] - sum[1])
      + (n * p[2] - sum[2]) * (n * p[2] - sum[2])
    < QuorumRadius * QuorumRadius * n * n

\* len([p for p in positions if distance.euclidean(p, avg_pos) < 3])
NearCount(A, cid) ==
    LET H == Holders(A, cid)
        s == MeanTimesN(A, cid)
        n == Cardinality(H)
    IN  Cardinality({h \in H : NearMean(Get(A[h].knowledge, cid), s, n)})

\* a variant of Quorum that asks for the whole fleet
QuorumOfAll(A) == NumAgents(A)

\* a variant of Quorum that is met by a single entry
QuorumOfOne(A) == 1

\* len(self.agents) // 2
Quorum(A) == NumAgents(A) \div 2

\* tuple(avg_pos.astype(int))
FusedValue(A, cid) ==
    LET n == Cardinality(Holders(A, cid))
        s == MeanTimesN(A, cid)
    IN  <<TruncDiv(s[1], n), TruncDiv(s[2], n)>>

\* the body of `for cid in shared` for one cid
FuseOne(A, a, cid) ==
    IF Holders(A, cid) # {} /\ NearCount(A, cid) >= Quorum(A)
    THEN [A EXCEPT ![a].knowledge = Put(@, cid, FusedValue(A, cid))]
    ELSE A

\* a variant of FuseShared that stores the coordinates of the reports
FuseSharedTakingReports(A, a, sh, i) == [A EXCEPT ![a].knowledge = Update(@, sh)]

\* the loop `for cid in shared` from the i-th key of sh on
RECURSIVE FuseShared(_, _, _, _)
FuseShared(A, a, sh, i) ==
    IF i > Len(sh) THEN A ELSE FuseShared(FuseOne(A, a, sh[i][1]), a, sh, i + 1)

\* one iteration of `for agent in self.agents` for the receiving agent a: the
\* fleets it can leave, each with the `shared` dict it was computed from
UpdateKnowledgeOf(A, a) ==
    {<<FuseShared(A, a, CollectShared(A, a, fails, 0, EmptyDict), 1),
       CollectShared(A, a, fails, 0, EmptyDict)>> : fails \in SUBSET Unreliable(A, a)}

\* one iteration of `for agent in self.agents`, for the receiving agent ci
UpdateKnowledgeStep ==
    /\ ci < NumAgents(agents)
    /\ \E out \in UpdateKnowledgeOf(agents, ci) :
          /\ agents' = out[1]
          /\ shared' = [shared EXCEPT ![ci] = out[2]]
    /\ pass_start' = IF ci = 0 THEN agents ELSE pass_start
    /\ ci' = ci + 1
    /\ op' = <<"consensus", ci>>
    /\ UNCHANGED env

\* update_knowledge called on its own
ConsensusStep == UpdateKnowledgeStep /\ UNCHANGED main

(***************************************************************************)
(* The locals of main() when the objects are driven by their operations     *)
(* alone, without the loop of main()                                       *)
(***************************************************************************)
NoDriver == [pc |-> "none"]

(***************************************************************************)
(* A new Agent (Agent.__init__)                                            *)
(***************************************************************************)
NewAgent(p, byz) ==
    [pos |-> p, is_byzantine |-> byz, knowledge |-> EmptyDict, step |-> 0,
     direction |-> 0, spiral_length |-> 1, steps_in_current_direction |-> 0,
     turns_taken |-> 0, battery |-> BatteryFull, current_speed |-> 1,
     max_speed |-> 1, rotation |-> 0]

(***************************************************************************)
(* Environment.move_customers                                              *)
(***************************************************************************)
\* random.choice([-1, 0, 1])
Step1 == {-1, 0, 1}

\* the draws of (dx, dy) explored for one customer's jitter: none, and the two
\* diagonal ones that meet the clamps at either end of an axis
JitterDraws == {<<0, 0>>, <<1, -1>>, <<-1, 1>>}

\* the signs of (wind_dx, wind_dy) explored in the loop of main(): a wind from
\* the east and one from the north-west
WindDraws == {<<-1, 0>>, <<1, 1>>}

\* the draws of random.randint(*distortion_range) explored per axis: both
\* extremes and an interior one (the coordinate itself is the draw that does not lie)
LieDraws == {-Distortion, 2, Distortion}

\* the customers from the i-th on, each moved by a draw of JitterDraws
\* and clamped: the set of the lists the loop can leave
RECURSIVE JitterFrom(_, _, _)
JitterFrom(cs, size, i) ==
    IF i > Len(cs) THEN {cs}
    ELSE UNION {JitterFrom([cs EXCEPT ![i] =
                                <<Clamp(0, size - 1, cs[i][1] + d[1]),
                                  Clamp(0, size - 1, cs[i][2] + d[2])>>], size, i + 1)
                : d \in JitterDraws}

\* the environments one move_customers call can leave
MoveCustomers(e) ==
    {[e EXCEPT !.customers = cs, !.step_count = @ + 1] :
        cs \in IF e.step_count % CustomerPeriod = 0
               THEN JitterFrom(e.customers, e.size, 1)
               ELSE {e.customers}}

(***************************************************************************)
(* Agent.drain_battery, Agent.apply_wind                                   *)
(***************************************************************************)
\* a variant of DrainBattery without the floor max(0, ...)
DrainBatteryUnfloored(ag) ==
    {[ag EXCEPT !.battery = @ - d * (ag.current_speed \div ag.max_speed)] :
        d \in DrainUnits}

\* speed_factor is current_speed / max_speed = 1: neither is ever assigned
DrainBattery(ag) ==
    {[ag EXCEPT !.battery = Max(0, @ - d * (ag.current_speed \div ag.max_speed))] :
        d \in DrainUnits}

\* int(x + w * random.uniform(0, 0.5)) for a wind component of sign w and of
\* size at most 0.5: the offset is in [-0.25, 0] for w < 0, in [0, 0.25] else
WindAxis(x, w) == IF w < 0 THEN {x, IF x >= 1 THEN x - 1 ELSE 0} ELSE {x}

ApplyWind(ag, wx, wy) ==
    IF ag.current_speed > 0
    THEN {[ag EXCEPT !.pos = <<Max(0, Min(x, WindClampMax)), Max(0, Min(y, WindClampMax))>>] :
            x \in WindAxis(ag.pos[1], wx), y \in WindAxis(ag.pos[2], wy)}
    ELSE {ag}

(***************************************************************************)
(* Agent.observe                                                           *)
(***************************************************************************)
\* a variant of InSensingRange that leaves out the customers at exactly the range
InSensingRangeInside(p, c) == Dist2(p, c) < SensingRange * SensingRange

\* distance <= 3
InSensingRange(p, c) == Dist2(p, c) <= SensingRange * SensingRange

\* what an agent can store for a customer at c that is in range
ReportsOffGrid(ag, c, size) ==
    IF ~ag.is_byzantine THEN {c}
    ELSE {<<c[1] + ox, c[2] + oy>> : ox \in LieDraws, oy \in LieDraws} \cup {c}

Reports(ag, c, size) ==
    IF ~ag.is_byzantine THEN {c}
    ELSE {<<Clamp(0, size - 1, c[1] + ox), Clamp(0, size - 1, c[2] + oy)>> :
             ox \in LieDraws, oy \in LieDraws}
         \cup {c}

\* the loop over enumerate(env.customers) from the i-th customer on (id i - 1)
RECURSIVE ObserveFrom(_, _, _)
ObserveFrom(ag, e, i) ==
    IF i > Len(e.customers) THEN {ag}
    ELSE IF InSensingRange(ag.pos, e.customers[i])
         THEN UNION {ObserveFrom([ag EXCEPT !.knowledge = Put(@, i - 1, v)], e, i + 1)
                     : v \in Reports(ag, e.customers[i], e.size)}
         ELSE ObserveFrom(ag, e, i + 1)

Observe(ag, e) == ObserveFrom(ag, e, 1)

(***************************************************************************)
(* Agent._move_random, Agent._move_spiral, Agent._move_toward_target       *)
(***************************************************************************)
MoveRandom(ag, e) ==
    {[ag EXCEPT !.pos = <<Clamp(0, e.size - 1, ag.pos[1] + dx),
                          Clamp(0, e.size - 1, ag.pos[2] + dy)>>,
                !.step = @ + 1] : dx \in Step1, dy \in Step1}

\* a variant of AngleDiff that takes half a turn for +180
AngleDiffHalfTurnPositive(target, rot) ==
    IF (target - rot) % FullTurn = 180 * Degree THEN 180 * Degree
    ELSE ((target - rot + 180 * Degree) % FullTurn) - 180 * Degree

\* ((target - rotation + 180) % 360) - 180, in [-180, 180)
AngleDiff(target, rot) == ((target - rot + 180 * Degree) % FullTurn) - 180 * Degree

\* the rotation after one gradual turn toward target
Turn(rot, target) ==
    IF Abs(AngleDiff(target, rot)) > TurningRate
    THEN IF AngleDiff(target, rot) > 0
         THEN (rot + TurningRate) % FullTurn
         ELSE (rot - TurningRate) % FullTurn
    ELSE target

SpiralDirections == <<<<0, 1>>, <<1, 0>>, <<0, -1>>, <<-1, 0>>>>
TargetRotations == <<0, 90 * Degree, 180 * Degree, 270 * Degree>>

\* pos moved by the direction of index d, clamped
SpiralTarget(ag, e, d) ==
    <<Clamp(0, e.size - 1, ag.pos[1] + SpiralDirections[d + 1][1]),
      Clamp(0, e.size - 1, ag.pos[2] + SpiralDirections[d + 1][2])>>

\* a variant of ArmGrows that lengthens the arm at every turn
ArmGrowsAtEveryTurn(turns) == TRUE

\* a variant of ArmGrows that never lengthens the arm
ArmGrowsNever(turns) == FALSE

\* if self.turns_taken % 2 == 0, turns_taken being the count after the turn
ArmGrows(turns) == turns % 2 = 0

\* a variant of RetryDirection that goes back to the direction before
RetryDirectionBack(d) == (d + 3) % 4

\* self.direction = (self.direction + 1) % 4, when the boundary was hit
RetryDirection(d) == (d + 1) % 4

MoveSpiral(ag, e) ==
    LET blocked == SpiralTarget(ag, e, ag.direction) = ag.pos
        d == IF blocked THEN RetryDirection(ag.direction) ELSE ag.direction
        turn == ag.steps_in_current_direction + 1 >= ag.spiral_length
        grow == turn /\ ArmGrows(ag.turns_taken + 1)
    IN  [ag EXCEPT
            !.rotation = Turn(@, TargetRotations[ag.direction + 1]),
            !.pos = SpiralTarget(ag, e, d),
            !.step = @ + 1,
            !.direction = IF turn THEN (d + 1) % 4 ELSE d,
            !.steps_in_current_direction = IF turn THEN 0 ELSE @ + 1,
            !.turns_taken = IF turn THEN @ + 1 ELSE @,
            !.spiral_length = IF grow THEN @ + 1 ELSE @]

\* degrees(atan2(dy, dx)) for dx, dy in 0..8, as AtanRows[dy + 1][dx + 1]
AtanRows ==
    << <<    0,     0,     0,     0,     0,     0,     0,     0,     0>>,
       <<90000, 45000, 26565, 18435, 14036, 11310,  9462,  8130,  7125>>,
       <<90000, 63435, 45000, 33690, 26565, 21801, 18435, 15945, 14036>>,
       <<90000, 71565, 56310, 45000, 36870, 30964, 26565, 23199, 20556>>,
       <<90000, 75964, 63435, 53130, 45000, 38660, 33690, 29745, 26565>>,
       <<90000, 78690, 68199, 59036, 51340, 45000, 39806, 35538, 32005>>,
       <<90000, 80538, 71565, 63435, 56310, 50194, 45000, 40601, 36870>>,
       <<90000, 81870, 74055, 66801, 60255, 54462, 49399, 45000, 41186>>,
       <<90000, 82875, 75964, 69444, 63435, 57995, 53130, 48814, 45000>> >>

\* target_angle: degrees(atan2(dy, dx)), plus 360 when negative
TargetAngle(dy, dx) ==
    LET a == AtanRows[Abs(dy) + 1][Abs(dx) + 1]
    IN  IF dy >= 0
        THEN IF dx >= 0 THEN a ELSE 180 * Degree - a
        ELSE IF dx >= 0 THEN (FullTurn - a) % FullTurn ELSE 180 * Degree + a

\* a variant of NearestFrom that takes the last of the nearest entries
RECURSIVE NearestFromLast(_, _, _, _)
NearestFromLast(k, p, i, best) ==
    IF i > Len(k) THEN best
    ELSE NearestFromLast(k, p, i + 1,
            IF best = 0 \/ Dist2(k[i][2], p) <= Dist2(k[best][2], p) THEN i ELSE best)

\* the index in the knowledge of the nearest entry, the first of the nearest:
\* the loop from entry i on, best the index so far (0 for none)
RECURSIVE NearestFrom(_, _, _, _)
NearestFrom(k, p, i, best) ==
    IF i > Len(k) THEN best
    ELSE NearestFrom(k, p, i + 1,
            IF best = 0 \/ Dist2(k[i][2], p) < Dist2(k[best][2], p) THEN i ELSE best)

\* the angle between rot and the x axis, in 0..180 degrees
Fold(rot) == IF rot <= 180 * Degree THEN rot ELSE FullTurn - rot

\* int(p + cos(radians(rot))) for an integer p >= 0.  cos is 1.0 at 0 and -1.0
\* at 180; at 90 it is 6.1e-17 and at 270 it is -1.8e-16, which the addition
\* absorbs except for p = 1 and p = 2.
CosStep(p, rot) ==
    IF rot = 0 THEN p + 1
    ELSE IF rot = 270 * Degree THEN (IF p \in {1, 2} THEN p - 1 ELSE p)
    ELSE IF Fold(rot) <= 90 * Degree THEN p
    ELSE IF p >= 1 THEN p - 1 ELSE IF rot = 180 * Degree THEN -1 ELSE 0

\* int(p + sin(radians(rot))): sin is 1.0 at 90 and -1.0 at 270; at 0 it is 0.0
\* and at 180 it is 1.2e-16
SinStep(p, rot) ==
    IF rot = 90 * Degree THEN p + 1
    ELSE IF rot <= 180 * Degree THEN p
    ELSE IF p >= 1 THEN p - 1 ELSE IF rot = 270 * Degree THEN -1 ELSE 0

\* floor(c + j) for c the cosine of the angle a in 0..180 degrees and j any
\* jitter in the open interval (-0.2, 0.2)
JitterFloors(a) ==
    IF a < AcosPoint8 THEN {0, 1}
    ELSE IF a <= AcosPoint2 THEN {0}
    ELSE IF a < 180 * Degree - AcosPoint2 THEN {-1, 0}
    ELSE IF a <= 180 * Degree - AcosPoint8 THEN {-1}
    ELSE {-2, -1}

\* int(p + m) for an integer p >= 0 and a real m of floor f
IntOfSum(p, f) == IF p + f >= 0 THEN p + f ELSE p + f + 1

\* int(p + cos(radians(rot)) + random.uniform(-0.2, 0.2))
CosJitterSteps(p, rot) == {IntOfSum(p, f) : f \in JitterFloors(Fold(rot))}

\* int(p + sin(radians(rot)) + random.uniform(-0.2, 0.2)): sin(r) = cos(r - 90)
SinJitterSteps(p, rot) ==
    {IntOfSum(p, f) : f \in JitterFloors(Fold((rot - 90 * Degree) % FullTurn))}

MoveTowardTarget(ag, e) ==
    IF NearestFrom(ag.knowledge, ag.pos, 1, 0) = 0 THEN {MoveSpiral(ag, e)}
    ELSE
      LET target == ag.knowledge[NearestFrom(ag.knowledge, ag.pos, 1, 0)][2]
          rot == Turn(ag.rotation,
                      TargetAngle(target[2] - ag.pos[2], target[1] - ag.pos[1]))
          plain == {<<CosStep(ag.pos[1], rot), SinStep(ag.pos[2], rot)>>}
          jittered == CosJitterSteps(ag.pos[1], rot) \X SinJitterSteps(ag.pos[2], rot)
      IN  {[ag EXCEPT !.rotation = rot,
                      !.pos = <<Clamp(0, e.size - 1, q[1]), Clamp(0, e.size - 1, q[2])>>,
                      !.step = @ + 1] : q \in plain \cup jittered}

(***************************************************************************)
(* Agent.move                                                              *)
(***************************************************************************)
\* a variant of SeeksTarget that leaves out the test of is_byzantine
SeeksTargetAnyone(ag) == ag.knowledge # EmptyDict

\* self.knowledge and not self.is_byzantine
SeeksTarget(ag) == ag.knowledge # EmptyDict /\ ~ag.is_byzantine

\* what follows drain_battery when the battery is not depleted: the movement
\* made ("random", "target", "spiral"; _move_toward_target falls back to the
\* spiral when it finds no nearest entry) with the agent it leaves
MoveAfterDrain(ag, e) ==
    (IF ag.is_byzantine THEN {<<"random", r>> : r \in MoveRandom(ag, e)} ELSE {})
    \cup (IF SeeksTarget(ag)
          THEN {<<IF NearestFrom(ag.knowledge, ag.pos, 1, 0) = 0
                  THEN "spiral" ELSE "target", o>> :
                  o \in UNION {Observe(m, e) : m \in MoveTowardTarget(ag, e)}}
          ELSE {<<"spiral", o>> : o \in Observe(MoveSpiral(ag, e), e)})

\* a variant of Move that goes on to the movement on a depleted battery
MoveWhenDepleted(ag, e) ==
    UNION {IF drained.battery > 0 THEN MoveAfterDrain(drained, e)
           ELSE {<<"dead", m[2]>> : m \in MoveAfterDrain(drained, e)}
           : drained \in DrainBattery(ag)}

\* the outcomes of one move call; "dead" is the return on a depleted battery
Move(ag, e) ==
    UNION {IF drained.battery > 0 THEN MoveAfterDrain(drained, e)
           ELSE {<<"dead", drained>>} : drained \in DrainBattery(ag)}

(***************************************************************************)
(* metrics.competitive_ratio                                               *)
(*                                                                         *)
(* The value returned is kept in the form the code computes it from: the   *)
(* int total_steps, the float total_steps / optimal with optimal the sum   *)
(* of the roots of the squared distances kept per agent, or float('inf').  *)
(***************************************************************************)
\* sum(agent.step for agent in agents), over the agents of S
RECURSIVE TotalSteps(_, _)
TotalSteps(A, S) ==
    IF S = {} THEN 0
    ELSE LET a == CHOOSE x \in S : TRUE IN A[a].step + TotalSteps(A, S \ {a})

\* the square of min(distance.euclidean(agent.pos, c) for c in env.customers)
MinDist2(p, cs) ==
    CHOOSE d \in {Dist2(p, cs[i]) : i \in 1..Len(cs)} :
        \A i \in 1..Len(cs) : d <= Dist2(p, cs[i])

\* optimal, the sum over the agents of the roots of these squares
Optimal(A, e) == [a \in DOMAIN A |-> MinDist2(A[a].pos, e.customers)]

\* a variant of OptimalPositive that asks every term to be positive
OptimalPositiveEvery(opt) == \A a \in DOMAIN opt : opt[a] > 0

\* optimal > 0: a sum of roots of naturals is positive when one of them is
OptimalPositive(opt) == \E a \in DOMAIN opt : opt[a] > 0

\* a variant of CompetitiveRatio that averages the steps when no customer is left
CompetitiveRatioAveraged(A, e) ==
    IF Len(e.customers) = 0
    THEN [kind |-> "steps", total_steps |-> TotalSteps(A, DOMAIN A) \div NumAgents(A)]
    ELSE IF OptimalPositive(Optimal(A, e))
    THEN [kind |-> "quotient", total_steps |-> TotalSteps(A, DOMAIN A),
          optimal |-> Optimal(A, e)]
    ELSE [kind |-> "inf"]

CompetitiveRatio(A, e) ==
    IF Len(e.customers) = 0
    THEN [kind |-> "steps", total_steps |-> TotalSteps(A, DOMAIN A)]
    ELSE IF OptimalPositive(Optimal(A, e))
    THEN [kind |-> "quotient", total_steps |-> TotalSteps(A, DOMAIN A),
          optimal |-> Optimal(A, e)]
    ELSE [kind |-> "inf"]

\* a local that holds no value yet, or a value no statement reads again
Unbound == [kind |-> "unbound"]

(***************************************************************************)
(* The operations as actions on the agent `a` of the fleet                 *)
(***************************************************************************)
AgentMove(a) ==
    /\ \E out \in Move(agents[a], env) :
          /\ agents' = [agents EXCEPT ![a] = out[2]]
          /\ op' = <<out[1], a>>
    /\ UNCHANGED <<env, ci, shared, pass_start, main>>

\* apply_wind(wind_dx, wind_dy) with components of sign wx, wy and size <= 0.5
AgentWind(a) ==
    /\ \E wx \in Step1, wy \in Step1 :
          \E blown \in ApplyWind(agents[a], wx, wy) :
              agents' = [agents EXCEPT ![a] = blown]
    /\ op' = <<"wind", a>>
    /\ UNCHANGED <<env, ci, shared, pass_start, main>>

AgentObserve(a) ==
    /\ \E seen \in Observe(agents[a], env) :
          agents' = [agents EXCEPT ![a] = seen]
    /\ op' = <<"observe", a>>
    /\ UNCHANGED <<env, ci, shared, pass_start, main>>

EnvMoveCustomers ==
    /\ env.step_count < MaxEnvSteps
    /\ \E e \in MoveCustomers(env) : env' = e
    /\ op' = <<"customers", 0>>
    /\ UNCHANGED <<agents, ci, shared, pass_start, main>>

(***************************************************************************)
(* One agent, Byzantine or honest, in a world of one customer: any         *)
(* sequence of move, apply_wind and move_customers calls                   *)
(***************************************************************************)
AgentStartCells == {<<0, 0>>, <<4, 4>>}
CustomerStartCells == {<<1, 2>>, <<4, 0>>}

AgentInit ==
    /\ \E byz \in BOOLEAN, p \in AgentStartCells, c \in CustomerStartCells :
          /\ env = [size |-> GridSize, customers |-> <<c>>, step_count |-> 0]
          /\ agents = [a \in {0} |-> NewAgent(p, byz)]
    /\ ci = 0
    /\ shared = [a \in {0} |-> EmptyDict]
    /\ pass_start = agents
    /\ op = <<"init", 0>>
    /\ main = NoDriver

AgentNext ==
    \/ \E a \in DOMAIN agents : AgentMove(a)
    \/ \E a \in DOMAIN agents : AgentWind(a)
    \/ EnvMoveCustomers

SpecAgent == AgentInit /\ [][AgentNext]_vars

(***************************************************************************)
(* Consensus over a synthetic fleet: the positions, the knowledge and the  *)
(* battery of FleetSize agents are drawn, then one pass runs.              *)
(***************************************************************************)
FusionCells == {<<0, 0>>, <<3, 4>>, <<6, 0>>}
FusionEntries == {EmptyDict, <<<<0, <<0, 0>>>>>>, <<<<0, <<6, 0>>>>>>,
                  <<<<0, <<7, 5>>>>, <<1, <<2, 2>>>>>>}
FusionFleet == 0..(FleetSize - 1)

FusionInit ==
    /\ env = [size |-> GridSize, customers |-> <<>>, step_count |-> 0]
    /\ \E P \in [FusionFleet -> FusionCells], K \in [FusionFleet -> FusionEntries],
          low \in {{}, {1}} :
          agents = [a \in FusionFleet |->
                      [NewAgent(P[a], a = 0) EXCEPT
                          !.knowledge = K[a],
                          !.battery = IF a \in low THEN 0 ELSE BatteryFull]]
    /\ ci = 0
    /\ shared = [a \in FusionFleet |-> EmptyDict]
    /\ pass_start = agents
    /\ op = <<"init", 0>>
    /\ main = NoDriver

FusionNext == ConsensusStep

SpecFusion == FusionInit /\ [][FusionNext]_vars

(***************************************************************************)
(* Consensus over a fleet of the driver's size: the positions and the      *)
(* knowledge of the five agents are drawn, every battery is full, then one *)
(* pass runs.                                                              *)
(***************************************************************************)
DriverFleetSize == 5
QuorumCells == {<<0, 0>>, <<3, 4>>}
QuorumEntries == {EmptyDict, <<<<0, <<1, 1>>>>>>, <<<<0, <<2, 1>>>>>>}
QuorumFleet == 0..(DriverFleetSize - 1)

QuorumInit ==
    /\ env = [size |-> DriverGridSize, customers |-> <<>>, step_count |-> 0]
    /\ \E P \in [QuorumFleet -> QuorumCells], K \in [QuorumFleet -> QuorumEntries] :
          agents = [a \in QuorumFleet |->
                      [NewAgent(P[a], a = 0) EXCEPT !.knowledge = K[a]]]
    /\ ci = 0
    /\ shared = [a \in QuorumFleet |-> EmptyDict]
    /\ pass_start = agents
    /\ op = <<"init", 0>>
    /\ main = NoDriver

QuorumNext == ConsensusStep

SpecQuorum == QuorumInit /\ [][QuorumNext]_vars

(***************************************************************************)
(* The fusion of one receiving agent, run twice on the same fleet: the     *)
(* knowledge of the fleet is drawn, then the loop `for cid in shared` is   *)
(* run for a receiving agent on two `shared` dicts that hold the same      *)
(* target-IDs, and main keeps the knowledge that each of the runs leaves   *)
(* the agent with.                                                         *)
(***************************************************************************)
ReportCells == {<<0, 0>>, <<7, 5>>}
ReportDicts ==
    {EmptyDict}
    \cup {<<<<k, c>>>> : k \in {0, 1}, c \in ReportCells}
    \cup {<<<<0, c>>, <<1, d>>>> : c \in ReportCells, d \in ReportCells}
    \cup {<<<<1, d>>, <<0, c>>>> : c \in ReportCells, d \in ReportCells}

ReportsInit ==
    /\ env = [size |-> GridSize, customers |-> <<>>, step_count |-> 0]
    /\ \E K \in [FusionFleet -> FusionEntries] :
          agents = [a \in FusionFleet |-> [NewAgent(<<0, 0>>, a = 0) EXCEPT !.knowledge = K[a]]]
    /\ ci = 0
    /\ shared = [a \in FusionFleet |-> EmptyDict]
    /\ pass_start = agents
    /\ op = <<"init", 0>>
    /\ main = [pc |-> "none", receiver |-> 0, first_shared |-> EmptyDict,
               second_shared |-> EmptyDict, first |-> EmptyDict, second |-> EmptyDict]

\* lines 14-19 for the receiving agent a, once for each of two dicts
FuseTwice(a) ==
    /\ main.pc = "none"
    /\ \E sh1 \in ReportDicts, sh2 \in ReportDicts :
          /\ Keys(sh1) = Keys(sh2)
          /\ main' = [pc |-> "fused", receiver |-> a,
                      first_shared |-> sh1, second_shared |-> sh2,
                      first |-> FuseShared(agents, a, sh1, 1)[a].knowledge,
                      second |-> FuseShared(agents, a, sh2, 1)[a].knowledge]
    /\ op' = <<"consensus", a>>
    /\ UNCHANGED <<env, agents, ci, shared, pass_start>>

ReportsNext == \E a \in DOMAIN agents : FuseTwice(a)

SpecReports == ReportsInit /\ [][ReportsNext]_vars

(***************************************************************************)
(* The battery at its own scale: one honest agent of a run, its battery    *)
(* counted in ten-thousandths of a point (100.0 is FullCharge), through    *)
(* the move call and a share_knowledge call of each of the ticks of a run  *)
(* (its search stays a spiral: the battery is all that the draws change).  *)
(* The draws of random.uniform(0.08, 0.12) and random.uniform(0.9, 1.1)    *)
(* are the ends of their ranges and the middle.                            *)
(***************************************************************************)
ChargeUnit == 10000
FullCharge == 100 * ChargeUnit
\* self.battery_drain_rate = random.uniform(0.08, 0.12)
DrainRates == {800, 1000, 1200}
\* random.uniform(0.9, 1.1), in tenths
DrainFactors == {9, 10, 11}
FactorScale == 10
\* main.py: if step >= 100
RunTicks == 100

\* a variant of Drained that takes the draw of the factor for a whole number
DrainedTenfold(b, rate, f) == Max(0, b - rate * f)

\* max(0, battery - rate * factor), the factor being f tenths
Drained(b, rate, f) == Max(0, b - (rate * f) \div FactorScale)

\* drain_battery on the agent's own drain rate
DrainBatteryAtRate(ag) ==
    {[ag EXCEPT !.battery =
          Drained(@, ag.battery_drain_rate * (ag.current_speed \div ag.max_speed), f)] :
        f \in DrainFactors}

\* one move call: drain_battery, then the movement on a live battery
MoveAtRate(ag, e) ==
    UNION {IF drained.battery > 0 THEN MoveAfterDrain(drained, e)
           ELSE {<<"dead", drained>>} : drained \in DrainBatteryAtRate(ag)}

\* self.battery < 20
LowCharge(b) == b < LowBatteryPct * ChargeUnit

\* the reports one share_knowledge call can return, on the battery's own
\* scale, each with the return statement it comes from: `return {}` on a low
\* battery (and a draw under 0.3), or `return self.knowledge.copy()`
ShareKnowledgeAtCharge(ag) ==
    {[low |-> FALSE, value |-> ag.knowledge]}
    \cup (IF LowCharge(ag.battery) THEN {[low |-> TRUE, value |-> EmptyDict]} ELSE {})

\* a new Agent with the drain rate drawn for it
ChargedAgent(p, rate) ==
    [pos |-> p, is_byzantine |-> FALSE, knowledge |-> EmptyDict, step |-> 0,
     direction |-> 0, spiral_length |-> 1, steps_in_current_direction |-> 0,
     turns_taken |-> 0, battery |-> FullCharge, battery_drain_rate |-> rate,
     current_speed |-> 1, max_speed |-> 1, rotation |-> 0]

\* an honest agent of the fleet, and a customer its spiral search does not
\* come in sight of within the run
ChargeInit ==
    /\ env = [size |-> DriverGridSize, customers |-> <<<<19, 19>>>>, step_count |-> 0]
    /\ \E rate \in DrainRates : agents = [a \in {0} |-> ChargedAgent(<<8, 8>>, rate)]
    /\ ci = 0
    /\ shared = [a \in {0} |-> EmptyDict]
    /\ pass_start = agents
    /\ op = <<"init", 0>>
    /\ main = [pc |-> "move", step |-> 0, report |-> Unbound]

\* agent.move(env) of a tick of the run
ChargeMove(a) ==
    /\ main.pc = "move"
    /\ main.step < RunTicks
    /\ \E out \in MoveAtRate(agents[a], env) :
          /\ agents' = [agents EXCEPT ![a] = out[2]]
          /\ op' = <<out[1], a>>
    /\ main' = [main EXCEPT !.pc = "share"]
    /\ UNCHANGED <<env, ci, shared, pass_start>>

\* other.share_knowledge() in the consensus pass of the tick, then step += 1
ChargeShare(a) ==
    /\ main.pc = "share"
    /\ \E r \in ShareKnowledgeAtCharge(agents[a]) :
          main' = [main EXCEPT !.pc = "move", !.step = @ + 1, !.report = r]
    /\ op' = <<"share", a>>
    /\ UNCHANGED <<env, agents, ci, shared, pass_start>>

ChargeNext ==
    \/ \E a \in DOMAIN agents : ChargeMove(a)
    \/ \E a \in DOMAIN agents : ChargeShare(a)

SpecCharge == ChargeInit /\ [][ChargeNext]_vars

(***************************************************************************)
(* Sensing on the driver's grid: one agent, Byzantine or honest, and two   *)
(* customers; any sequence of observe and move_customers calls             *)
(***************************************************************************)
ObserverCells == {<<1, 1>>, <<10, 10>>, <<16, 19>>}
ObservedCells == {<<0, 1>>, <<10, 13>>, <<12, 12>>, <<17, 17>>}

ObserveInit ==
    /\ \E byz \in BOOLEAN, p \in ObserverCells, c \in ObservedCells, d \in ObservedCells :
          /\ env = [size |-> DriverGridSize, customers |-> <<c, d>>, step_count |-> 0]
          /\ agents = [a \in {0} |-> NewAgent(p, byz)]
    /\ ci = 0
    /\ shared = [a \in {0} |-> EmptyDict]
    /\ pass_start = agents
    /\ op = <<"init", 0>>
    /\ main = NoDriver

ObserveNext ==
    \/ \E a \in DOMAIN agents : AgentObserve(a)
    \/ EnvMoveCustomers

SpecObserve == ObserveInit /\ [][ObserveNext]_vars

(***************************************************************************)
(* The convergence scenario: the driver's fleet of 5 (agent 0 Byzantine)   *)
(* on the driver's grid, one target; every agent senses once, in order,    *)
(* then one consensus pass runs                                            *)
(***************************************************************************)
ScenarioFleet == 0..4
ScenarioTargets == {<<10, 10>>, <<3, 18>>}
\* where an honest agent stands, as an offset to the target
HonestOffsets == {<<0, 0>>, <<3, 0>>, <<-1, -2>>}
\* where the Byzantine agent stands, as an offset to the target
ByzantineOffsets == {<<1, 1>>, <<-3, 0>>, <<0, -3>>, <<6, -6>>}

ScenarioInit ==
    /\ \E T \in ScenarioTargets, H \in [ScenarioFleet \ {0} -> HonestOffsets],
          B \in ByzantineOffsets :
          /\ env = [size |-> DriverGridSize, customers |-> <<T>>, step_count |-> 0]
          /\ agents = [a \in ScenarioFleet |->
                         IF a = 0
                         THEN NewAgent(<<T[1] + B[1], T[2] + B[2]>>, TRUE)
                         ELSE NewAgent(<<T[1] + H[a][1], T[2] + H[a][2]>>, FALSE)]
    /\ ci = 0
    /\ shared = [a \in ScenarioFleet |-> EmptyDict]
    /\ pass_start = agents
    /\ op = <<"init", 0>>
    /\ main = NoDriver

ScenarioNext ==
    \/ \E a \in DOMAIN agents :
          /\ op = IF a = 0 THEN <<"init", 0>> ELSE <<"observe", a - 1>>
          /\ AgentObserve(a)
    \/ /\ op \in {<<"observe", NumAgents(agents) - 1>>} \cup
                 {<<"consensus", a>> : a \in DOMAIN agents}
       /\ ConsensusStep

SpecScenario == ScenarioInit /\ [][ScenarioNext]_vars

(***************************************************************************)
(* share_knowledge and its caller: one agent whose battery and knowledge   *)
(* are drawn; the caller keeps the mapping returned by the last call and   *)
(* the one returned by the call before it, and may write into the last;    *)
(* the agent (an honest one: share_knowledge does not read is_byzantine)   *)
(* goes on sensing                                                         *)
(*                                                                         *)
(* A mapping held by the caller is an object: `fresh` tells a dict of its  *)
(* own (knowledge.copy(), {}) from a reference to the knowledge of agent   *)
(* `of`, and `value` is what a dict of its own holds.                      *)
(***************************************************************************)
\* a variant of ReturnedBy that hands out the knowledge itself
ReturnedLive(a, ag) ==
    {[fresh |-> r = EmptyDict, of |-> a, value |-> EmptyDict] : r \in ShareKnowledge(ag)}

\* the objects a share_knowledge call of agent a can return: `{}` or
\* `self.knowledge.copy()`, a new dict either way
ReturnedBy(a, ag) ==
    {[fresh |-> TRUE, of |-> a, value |-> r] : r \in ShareKnowledge(ag)}

\* what a mapping held by the caller reads as
Content(r) == IF r.fresh THEN r.value ELSE agents[r.of].knowledge

\* r[k] = v on a mapping held by the caller: the agents it leaves and the mapping
WriteTo(r, k, v) ==
    IF r.fresh THEN <<agents, [r EXCEPT !.value = Put(@, k, v)]>>
    ELSE <<[agents EXCEPT ![r.of].knowledge = Put(@, k, v)], r>>

ShareCells == {<<1, 1>>, <<4, 4>>}
ShareEntries == {EmptyDict, <<<<0, <<1, 2>>>>>>, <<<<0, <<1, 2>>>>, <<1, <<3, 3>>>>>>}
\* the keys the caller writes: one the knowledge may hold, one it never holds
WrittenKeys == {0, 2}

ShareInit ==
    /\ env = [size |-> GridSize, customers |-> <<<<1, 2>>, <<2, 1>>>>, step_count |-> 0]
    /\ \E p \in ShareCells, k \in ShareEntries, b \in 0..BatteryFull :
          agents = [a \in {0} |-> [NewAgent(p, FALSE) EXCEPT !.knowledge = k, !.battery = b]]
    /\ ci = 0
    /\ shared = [a \in {0} |-> EmptyDict]
    /\ pass_start = agents
    /\ op = <<"init", 0>>
    /\ main = [pc |-> "none", report |-> Unbound, earlier |-> Unbound]

\* report = agent.share_knowledge()
ShareCall(a) ==
    /\ \E r \in ReturnedBy(a, agents[a]) :
          main' = [main EXCEPT !.earlier = main.report, !.report = r]
    /\ op' = <<"share", a>>
    /\ UNCHANGED <<env, agents, ci, shared, pass_start>>

\* the caller changes the mapping it was handed last
CallerWrites ==
    /\ main.report # Unbound
    /\ \E k \in WrittenKeys :
          /\ agents' = WriteTo(main.report, k, <<0, 0>>)[1]
          /\ main' = [main EXCEPT !.report = WriteTo(main.report, k, <<0, 0>>)[2]]
    /\ op' = <<"write", 0>>
    /\ UNCHANGED <<env, ci, shared, pass_start>>

ShareNext ==
    \/ \E a \in DOMAIN agents : ShareCall(a)
    \/ CallerWrites
    \/ \E a \in DOMAIN agents : AgentObserve(a)

SpecShare == ShareInit /\ [][ShareNext]_vars

(***************************************************************************)
(* The delivery check of main()                                            *)
(***************************************************************************)
\* the index in cs (from the i-th on) of the first customer at p, 0 for none
RECURSIVE FirstAt(_, _, _)
FirstAt(cs, p, i) ==
    IF i > Len(cs) THEN 0 ELSE IF cs[i] = p THEN i ELSE FirstAt(cs, p, i + 1)

\* a variant of Pop that removes the last customer of the list
PopLast(cs, i) == [k \in 1..(Len(cs) - 1) |-> cs[k]]

\* cs.pop(i - 1)
Pop(cs, i) == [k \in 1..(Len(cs) - 1) |-> IF k < i THEN cs[k] ELSE cs[k + 1]]

\* the loop `for agent in agents` of the delivery check from agent a on: the
\* customers left and the count of deliveries, <<cs, n>>
RECURSIVE DeliverFrom(_, _, _, _)
DeliverFrom(A, a, cs, n) ==
    IF a >= NumAgents(A) THEN <<cs, n>>
    ELSE IF FirstAt(cs, A[a].pos, 1) = 0 THEN DeliverFrom(A, a + 1, cs, n)
    ELSE DeliverFrom(A, a + 1, Pop(cs, FirstAt(cs, A[a].pos, 1)), n + 1)

(***************************************************************************)
(* The metric of a fleet of two in a world of up to two customers: the     *)
(* cells, the step counters and the customers are drawn, then the delivery *)
(* check and competitive_ratio are called in any order                     *)
(***************************************************************************)
MetricFleet == {0, 1}
MetricCells == {<<0, 0>>, <<3, 4>>, <<4, 4>>}
MetricSteps == {0, 1, 3}
MetricWorlds ==
    {<<>>} \cup {<<c>> : c \in MetricCells} \cup {<<c, d>> : c \in MetricCells, d \in MetricCells}

MetricInit ==
    /\ \E P \in [MetricFleet -> MetricCells], S \in [MetricFleet -> MetricSteps],
          cs \in MetricWorlds :
          /\ env = [size |-> GridSize, customers |-> cs, step_count |-> 0]
          /\ agents = [a \in MetricFleet |-> [NewAgent(P[a], a = 0) EXCEPT !.step = S[a]]]
    /\ ci = 0
    /\ shared = [a \in MetricFleet |-> EmptyDict]
    /\ pass_start = agents
    /\ op = <<"init", 0>>
    /\ main = [pc |-> "none", current_ratio |-> Unbound]

\* current_ratio = competitive_ratio(agents, env)
MetricMeasure ==
    /\ main' = [main EXCEPT !.current_ratio = CompetitiveRatio(agents, env)]
    /\ op' = <<"metric", 0>>
    /\ UNCHANGED <<env, agents, ci, shared, pass_start>>

\* the delivery check of main(), when it removes a customer
MetricDeliver ==
    /\ DeliverFrom(agents, 0, env.customers, 0)[2] > 0
    /\ env' = [env EXCEPT !.customers = DeliverFrom(agents, 0, env.customers, 0)[1]]
    /\ op' = <<"delivery", 0>>
    /\ UNCHANGED <<agents, ci, shared, pass_start, main>>

MetricNext == MetricMeasure \/ MetricDeliver

SpecMetric == MetricInit /\ [][MetricNext]_vars

(***************************************************************************)
(* main(): the event loop, the tick and the restart of a run               *)
(***************************************************************************)
DriverFleet == {0, 1}
\* the customer list a new Environment starts with: two customers on one cell,
\* next to agent 1 (the jitter of the first tick moves them, apart or not)
DriverWorlds == {<<<<4, 5>>, <<4, 5>>>>}

\* the events of one pygame.event.get() batch; a click lands on the Run button,
\* on the Close button (where the results panel draws them) or elsewhere
Events == {"quit", "escape", "space", "click_run", "click_close", "click_miss"}
EventBatches == {<<>>} \cup {<<e>> : e \in Events} \cup {<<"space", e>> : e \in Events}

\* the fleet of a new run
NewFleet == [a \in DriverFleet |-> NewAgent(<<a * AgentSpacing, a * AgentSpacing>>, a = 0)]

\* the locals at the top of the simulation loop of a new run
NewRun(customers) ==
    [pc |-> "events", ai |-> 0, step |-> 0, paused |-> FALSE, running |-> TRUE,
     simulation_active |-> TRUE, delivered_count |-> 0,
     initial_customer_count |-> Len(customers), show_results_panel |-> FALSE,
     current_ratio |-> Unbound]

\* the loop `for event in pygame.event.get()` from the i-th event of the batch
\* on; a click on a button of the results panel breaks out of the loop
RECURSIVE HandleFrom(_, _, _)
HandleFrom(m, batch, i) ==
    IF i > Len(batch) THEN m
    ELSE LET ev == batch[i] IN
         IF ev \in {"quit", "escape"}
         THEN HandleFrom([m EXCEPT !.running = FALSE, !.simulation_active = FALSE],
                         batch, i + 1)
         ELSE IF ev = "space"
         THEN HandleFrom([m EXCEPT !.paused = ~m.paused], batch, i + 1)
         ELSE IF m.show_results_panel /\ ev = "click_run"
         THEN [m EXCEPT !.simulation_active = FALSE]
         ELSE IF m.show_results_panel /\ ev = "click_close"
         THEN [m EXCEPT !.running = FALSE]
         ELSE HandleFrom(m, batch, i + 1)

\* where main() stands once an iteration of the simulation loop has ended:
\* `while running and simulation_active`, then `while running`
LoopTop(m) ==
    IF m.running /\ m.simulation_active THEN "events"
    ELSE IF m.running THEN "restart" ELSE "exit"

\* where the loop goes after the events: into the tick, or through the paused
\* display (which recomputes the metric) to the end of the iteration
AfterEvents(m) ==
    IF ~m.paused /\ m.simulation_active THEN [m EXCEPT !.pc = "customers"]
    ELSE IF m.simulation_active
    THEN [m EXCEPT !.pc = LoopTop(m), !.current_ratio = CompetitiveRatio(agents, env)]
    ELSE [m EXCEPT !.pc = LoopTop(m)]

\* the event handling of one iteration of the simulation loop, for the batch
\* that pygame.event.get() returns
\* (a run is followed for `budget` ticks, and one tick more when an event
\* resumes it after its completion)
HandleBatchWithin(batch, budget) ==
    /\ main.pc = "events"
    /\ main' = AfterEvents(HandleFrom(main, batch, 1))
    /\ main'.pc = "customers" => main.step <= budget
    /\ op' = <<"events", 0>>
    /\ UNCHANGED <<env, agents, ci, shared, pass_start>>

HandleBatch(batch) == HandleBatchWithin(batch, TickBudget)

HandleEvents == \E batch \in EventBatches : HandleBatch(batch)

\* an iteration in which no event is pending
NoEvents == HandleBatch(<<>>)

\* if step % 5 == 0: env.move_customers()
TickCustomers ==
    /\ main.pc = "customers"
    /\ IF main.step % DriverPeriod = 0
       THEN \E e \in MoveCustomers(env) : env' = e
       ELSE env' = env
    /\ main' = [main EXCEPT !.pc = "agents", !.ai = 0]
    /\ op' = <<"customers", 0>>
    /\ UNCHANGED <<agents, ci, shared, pass_start>>

\* the agents the wind can leave of ag before its move: ag itself when the draw
\* spares it, or an outcome of apply_wind for a wind of any direction
Blown(ag) ==
    {ag} \cup UNION {ApplyWind(ag, w[1], w[2]) : w \in WindDraws}

\* a variant of AfterAgent that leaves the loop after its first iteration
ConsensusAfterFirst(m, n) == [m EXCEPT !.pc = "consensus"]

\* `for agent in agents`: on to the next agent, or out of the loop to the
\* consensus pass when the agent was the last of the n
AfterAgent(m, n) ==
    IF m.ai + 1 < n THEN [m EXCEPT !.ai = @ + 1] ELSE [m EXCEPT !.pc = "consensus"]

\* the body of `for agent in agents` for agent ai: the wind, then the move
TickAgent ==
    /\ main.pc = "agents"
    /\ \E blown \in Blown(agents[main.ai]) :
          \E out \in Move(blown, env) :
              /\ agents' = [agents EXCEPT ![main.ai] = out[2]]
              /\ op' = <<out[1], main.ai>>
    /\ main' = AfterAgent(main, NumAgents(agents))
    /\ UNCHANGED <<env, ci, shared, pass_start>>

\* consensus.update_knowledge(), one receiving agent at a time
TickConsensus ==
    /\ main.pc = "consensus"
    /\ UpdateKnowledgeStep
    /\ main' = IF ci + 1 < NumAgents(agents) THEN main
               ELSE [main EXCEPT !.pc = "delivery"]

\* the delivery check, the metric, step += 1 and the completion check of a
\* tick, to the end of the iteration; update_knowledge has returned, its locals
\* are gone
TickDeliveryWithin(budget) ==
    /\ main.pc = "delivery"
    /\ LET d == DeliverFrom(agents, 0, env.customers, main.delivered_count)
           done == main.step + 1 >= budget \/ Len(d[1]) = 0
       IN  /\ env' = [env EXCEPT !.customers = d[1]]
           /\ main' = [main EXCEPT !.pc = LoopTop(main),
                                   !.delivered_count = d[2],
                                   !.current_ratio = CompetitiveRatio(agents, env'),
                                   !.step = @ + 1,
                                   !.paused = @ \/ done,
                                   !.show_results_panel = @ \/ done]
    /\ op' = <<"delivery", 0>>
    /\ ci' = 0
    /\ shared' = [a \in DOMAIN agents |-> EmptyDict]
    /\ pass_start' = agents
    /\ UNCHANGED agents

TickDelivery == TickDeliveryWithin(TickBudget)

\* the next iteration of `while running`: a new environment, a new fleet, the
\* visualizer reset
Restart ==
    /\ main.pc = "restart"
    /\ \E cs \in DriverWorlds :
          /\ env' = [size |-> DriverGridSize, customers |-> cs, step_count |-> 0]
          /\ main' = NewRun(cs)
    /\ agents' = NewFleet
    /\ ci' = 0
    /\ shared' = [a \in DriverFleet |-> EmptyDict]
    /\ pass_start' = NewFleet
    /\ op' = <<"init", 0>>

Init ==
    /\ \E cs \in DriverWorlds :
          /\ env = [size |-> DriverGridSize, customers |-> cs, step_count |-> 0]
          /\ main = NewRun(cs)
    /\ agents = NewFleet
    /\ ci = 0
    /\ shared = [a \in DriverFleet |-> EmptyDict]
    /\ pass_start = NewFleet
    /\ op = <<"init", 0>>

Next ==
    \/ HandleEvents
    \/ TickCustomers
    \/ TickAgent
    \/ TickConsensus
    \/ TickDelivery
    \/ Restart

Spec == Init /\ [][Next]_vars

(***************************************************************************)
(* A run of main() that no event disturbs: the ticks follow one another up *)
(* to the completion of the run                                            *)
(***************************************************************************)
\* the customer lists of the run: two customers on one cell next to agent 1,
\* one customer in sight of agent 0, or one customer next to each agent
QuietWorlds == {<<<<4, 5>>, <<4, 5>>>>, <<<<0, 2>>>>, <<<<0, 1>>, <<4, 5>>>>}

QuietInit ==
    /\ \E cs \in QuietWorlds :
          /\ env = [size |-> DriverGridSize, customers |-> cs, step_count |-> 0]
          /\ main = NewRun(cs)
    /\ agents = NewFleet
    /\ ci = 0
    /\ shared = [a \in DriverFleet |-> EmptyDict]
    /\ pass_start = NewFleet
    /\ op = <<"init", 0>>

QuietNext ==
    \/ NoEvents
    \/ TickCustomers
    \/ TickAgent
    \/ TickConsensus
    \/ TickDelivery

SpecQuiet == QuietInit /\ [][QuietNext]_vars

(***************************************************************************)
(* The cadence of the customers: a run of main() that no event disturbs,   *)
(* followed over CadenceTicks ticks.  The fleet is cut down to agent 1 of   *)
(* main() (honest, at (4, 4)), and the customer is out of its reach.        *)
(***************************************************************************)
CadenceTicks == 6
CadenceWorlds == {<<<<15, 15>>>>, <<<<19, 0>>>>}
CadenceFleet == [a \in {0} |-> NewAgent(<<AgentSpacing, AgentSpacing>>, FALSE)]

CadenceInit ==
    /\ \E cs \in CadenceWorlds :
          /\ env = [size |-> DriverGridSize, customers |-> cs, step_count |-> 0]
          /\ main = NewRun(cs)
    /\ agents = CadenceFleet
    /\ ci = 0
    /\ shared = [a \in DOMAIN CadenceFleet |-> EmptyDict]
    /\ pass_start = CadenceFleet
    /\ op = <<"init", 0>>

CadenceEvents == HandleBatchWithin(<<>>, CadenceTicks)

CadenceDelivery == TickDeliveryWithin(CadenceTicks)

CadenceNext ==
    \/ CadenceEvents
    \/ TickCustomers
    \/ TickAgent
    \/ TickConsensus
    \/ CadenceDelivery

SpecCadence == CadenceInit /\ [][CadenceNext]_vars

(***************************************************************************)
(* Environment.__init__: the caller draws size and num_customers, then     *)
(* constructs the world.  env holds no value until the constructor has     *)
(* returned, and none at all when it has raised.                           *)
(***************************************************************************)
ConstructSizes == {-1, 0, 1, 2, 3}
ConstructCounts == {-1, 0, 1, 2}

\* [(randint(0, size), randint(0, size)) for _ in range(n)]: the lists of n
\* cells, for size >= 1; range(n) is empty for n <= 0
RECURSIVE CustomerLists(_, _)
CustomerLists(size, n) ==
    IF n <= 0 THEN {<<>>}
    ELSE {Append(cs, <<x, y>>) :
            cs \in CustomerLists(size, n - 1), x \in 0..(size - 1), y \in 0..(size - 1)}

\* the outcomes of Environment(size, num_customers): np.zeros((size, size))
\* raises ValueError for a negative size, and np.random.randint(0, size)
\* raises it for size <= 0, when it is called at all
NewEnvironment(size, n) ==
    IF size < 0 \/ (size = 0 /\ n >= 1)
    THEN {[raised |-> TRUE, env |-> Unbound]}
    ELSE {[raised |-> FALSE,
           env |-> [size |-> size, customers |-> cs, step_count |-> 0]] :
             cs \in CustomerLists(size, n)}

ConstructInit ==
    /\ env = Unbound
    /\ \E size \in ConstructSizes, n \in ConstructCounts :
          main = [pc |-> "none", size |-> size, num_customers |-> n, raised |-> FALSE]
    /\ agents = <<>>
    /\ ci = 0
    /\ shared = <<>>
    /\ pass_start = <<>>
    /\ op = <<"init", 0>>

Construct ==
    /\ op = <<"init", 0>>
    /\ \E out \in NewEnvironment(main.size, main.num_customers) :
          /\ env' = out.env
          /\ main' = [main EXCEPT !.raised = out.raised]
    /\ op' = <<"construct", 0>>
    /\ UNCHANGED <<agents, ci, shared, pass_start>>

ConstructNext == Construct

SpecConstruct == ConstructInit /\ [][ConstructNext]_vars

(***************************************************************************)
(* Target seeking: an honest agent with a heading and a knowledge that are *)
(* drawn, in a world without customers, and a caller that calls            *)
(* _move_toward_target up to SeekSteps times.  main keeps the locals of    *)
(* the last call: nearest_customer_id (-1 for None), target_angle (in the  *)
(* spiral fallback, target_rotation) and angle_diff.                       *)
(***************************************************************************)
SeekSteps == 3

SeekCells == {<<0, 0>>, <<2, 2>>, <<4, 1>>, <<3, 4>>}
SeekHeadings == {0, 90 * Degree, 255 * Degree}
SeekEntries ==
    {EmptyDict,
     <<<<0, <<0, 1>>>>>>,
     <<<<0, <<4, 4>>>>>>,
     <<<<3, <<3, 1>>>>, <<1, <<1, 3>>>>, <<2, <<1, 1>>>>>>,
     <<<<0, <<4, 3>>>>, <<1, <<2, 1>>>>, <<2, <<3, 0>>>>>>}

SeekInit ==
    /\ env = [size |-> GridSize, customers |-> <<>>, step_count |-> 0]
    /\ \E p \in SeekCells, h \in SeekHeadings, k \in SeekEntries :
          agents = [a \in {0} |-> [NewAgent(p, FALSE) EXCEPT !.rotation = h, !.knowledge = k]]
    /\ main = [pc |-> "none", nearest_customer_id |-> -1, target_angle |-> 0,
               angle_diff |-> 0]
    /\ ci = 0
    /\ shared = [a \in {0} |-> EmptyDict]
    /\ pass_start = agents
    /\ op = <<"init", 0>>

\* the locals of _move_toward_target(ag), or of the _move_spiral it falls back to
SeekLocals(ag) ==
    LET n == NearestFrom(ag.knowledge, ag.pos, 1, 0)
        target == ag.knowledge[n][2]
        wanted == IF n = 0 THEN TargetRotations[ag.direction + 1]
                  ELSE TargetAngle(target[2] - ag.pos[2], target[1] - ag.pos[1])
    IN  [pc |-> "none",
         nearest_customer_id |-> IF n = 0 THEN -1 ELSE ag.knowledge[n][1],
         target_angle |-> wanted,
         angle_diff |-> AngleDiff(wanted, ag.rotation)]

SeekStep(a) ==
    /\ agents[a].step < SeekSteps
    /\ \E m \in MoveTowardTarget(agents[a], env) :
          agents' = [agents EXCEPT ![a] = m]
    /\ main' = SeekLocals(agents[a])
    /\ op' = <<IF main'.nearest_customer_id = -1 THEN "spiral" ELSE "target", a>>
    /\ UNCHANGED <<env, ci, shared, pass_start>>

SeekNext == \E a \in DOMAIN agents : SeekStep(a)

SpecSeek == SeekInit /\ [][SeekNext]_vars

(***************************************************************************)
(* Reaching a target: an honest agent on any cell, with a heading that is  *)
(* drawn, knows the true cell of the one customer of the world, which      *)
(* move_customers is never called on.  The caller calls move again and     *)
(* again, for ever; the battery never runs out (the drain is left out),    *)
(* and step is counted up to StepCap and held there: no statement of the   *)
(* movement reads it, so an agent that is back on a cell with a heading it *)
(* has had there goes on as it did before.                                 *)
(***************************************************************************)
StepCap == 2

ReachCells == (0..(GridSize - 1)) \X (0..(GridSize - 1))
ReachTargets == {<<1, 1>>, <<3, 2>>}
ReachHeadings == {0, 90 * Degree, 180 * Degree, 270 * Degree}

ReachInit ==
    /\ \E p \in ReachCells, h \in ReachHeadings, c \in ReachTargets :
          /\ env = [size |-> GridSize, customers |-> <<c>>, step_count |-> 0]
          /\ agents = [a \in {0} |->
                         [NewAgent(p, FALSE) EXCEPT !.rotation = h, !.knowledge = <<<<0, c>>>>]]
    /\ main = NoDriver
    /\ ci = 0
    /\ shared = [a \in {0} |-> EmptyDict]
    /\ pass_start = agents
    /\ op = <<"init", 0>>

\* one move call of an agent whose battery is not depleted
ReachMove(a) ==
    /\ \E out \in MoveAfterDrain(agents[a], env) :
          /\ agents' = [agents EXCEPT ![a] = [out[2] EXCEPT !.step = Min(@, StepCap)]]
          /\ op' = <<out[1], a>>
    /\ UNCHANGED <<env, ci, shared, pass_start, main>>

ReachNext == \E a \in DOMAIN agents : ReachMove(a)

\* the caller never stops calling move
SpecReach == ReachInit /\ [][ReachNext]_vars /\ WF_vars(ReachNext)

(***************************************************************************)
(* The spiral search: a new agent on any cell of a world without           *)
(* customers, and a caller that calls _move_spiral SpiralSteps times and   *)
(* keeps the bounding box of the cells the agent has stood on: lo and hi   *)
(* are its corners, arm_lo and arm_hi the corners it had when the last     *)
(* turn was counted, clamped tells whether a clamp has held a move back.   *)
(***************************************************************************)
SpiralSteps == 12

SpiralCells == (0..(GridSize - 1)) \X (0..(GridSize - 1))

SpiralInit ==
    /\ env = [size |-> GridSize, customers |-> <<>>, step_count |-> 0]
    /\ \E p \in SpiralCells :
          /\ agents = [a \in {0} |-> NewAgent(p, FALSE)]
          /\ main = [pc |-> "none", lo |-> p, hi |-> p, arm_lo |-> p, arm_hi |-> p,
                     clamped |-> FALSE]
    /\ ci = 0
    /\ shared = [a \in {0} |-> EmptyDict]
    /\ pass_start = agents
    /\ op = <<"init", 0>>

\* the clamp of lines 166-167 holds the move of ag back
Clamped(ag, e) == SpiralTarget(ag, e, ag.direction) = ag.pos

\* one _move_spiral call, and the caller's bookkeeping
SpiralStep(a) ==
    /\ agents[a].step < SpiralSteps
    /\ agents' = [agents EXCEPT ![a] = MoveSpiral(agents[a], env)]
    /\ LET p == agents'[a].pos
           lo == <<Min(main.lo[1], p[1]), Min(main.lo[2], p[2])>>
           hi == <<Max(main.hi[1], p[1]), Max(main.hi[2], p[2])>>
           turned == agents'[a].turns_taken # agents[a].turns_taken
       IN  main' = [main EXCEPT
                      !.lo = lo, !.hi = hi,
                      !.arm_lo = IF turned THEN lo ELSE @,
                      !.arm_hi = IF turned THEN hi ELSE @,
                      !.clamped = @ \/ Clamped(agents[a], env)]
    /\ op' = <<"spiral", a>>
    /\ UNCHANGED <<env, ci, shared, pass_start>>

SpiralNext == \E a \in DOMAIN agents : SpiralStep(a)

SpecSpiral == SpiralInit /\ [][SpiralNext]_vars

(***************************************************************************)
(* Claims about the consensus pass                                         *)
(***************************************************************************)
\* two agents of fleet A, distinct, at a distance of at most 5
WithinReach(A, a, h) ==
    a # h /\ Dist2(A[a].pos, A[h].pos) <= 25

\* what an agent holds for cid: the coordinate, or <<>> for no entry
Entry(ag, cid) == IF Has(ag.knowledge, cid) THEN Get(ag.knowledge, cid) ELSE <<>>

\* the agents of fleet A with an entry for cid
EntryHolders(A, cid) == {h \in DOMAIN A : Entry(A[h], cid) # <<>>}

\* n*n times the squared distance of p to the mean of all the entries for cid
\* in fleet A, n being the number of entries
ScaledDist2ToMean(A, cid, p) ==
    LET H == EntryHolders(A, cid)
        n == Cardinality(H)
        sx == SumAxis(A, cid, 1, H)
        sy == SumAxis(A, cid, 2, H)
    IN  (n * p[1] - sx) * (n * p[1] - sx) + (n * p[2] - sy) * (n * p[2] - sy)

\* n*n times 3*3
ScaledRadius2(A, cid) ==
    9 * Cardinality(EntryHolders(A, cid)) * Cardinality(EntryHolders(A, cid))

\* the holders of cid in fleet A whose entry is at a distance of the mean of all
\* the entries for cid that is < 3 (strict) or <= 3 (not strict)
ClusterSize(A, cid, strict) ==
    Cardinality({h \in EntryHolders(A, cid) :
        IF strict
        THEN ScaledDist2ToMean(A, cid, Entry(A[h], cid)) < ScaledRadius2(A, cid)
        ELSE ScaledDist2ToMean(A, cid, Entry(A[h], cid)) <= ScaledRadius2(A, cid)})

\* the mean of all the entries for cid in fleet A, truncated toward zero
TruncatedMean(A, cid) ==
    LET H == {h \in DOMAIN A : Entry(A[h], cid) # <<>>}
        n == Cardinality(H)
    IN  <<SumAxis(A, cid, 1, H) \div n, SumAxis(A, cid, 2, H) \div n>>

\* the fusion rule for the agent that has just taken its turn
FusionRule(strict) ==
    ci' = ci + 1 =>
        \A cid \in Keys(shared'[ci]) :
            Entry(agents'[ci], cid) =
                IF ClusterSize(agents, cid, strict) >= Cardinality(DOMAIN agents) \div 2
                THEN TruncatedMean(agents, cid)
                ELSE Entry(agents[ci], cid)

\* C1 as stated: an entry within distance 3 of the mean (3 included) counts
\* toward the quorum floor(fleetSize/2); the receiving agent's entry becomes the
\* truncated fleet-wide mean when the quorum is met and is unchanged otherwise.
C1_FusionRuleWithin3 == [][FusionRule(FALSE)]_vars

\* C1 amended: the same rule with the quorum counting the entries at a distance
\* strictly less than 3 of the mean.
C1_FusionRuleStrict == [][FusionRule(TRUE)]_vars

\* C1 witness: an agent out of range of a holder has taken a report and its
\* entry was overwritten by the mean of the whole fleet's entries.
C1_Witness ==
    \E a \in DOMAIN agents, h \in DOMAIN agents :
        /\ a < ci
        /\ Has(shared[a], 0)
        /\ Entry(pass_start[h], 0) # <<>>
        /\ ~WithinReach(agents, a, h) /\ a # h
        /\ Entry(agents[a], 0) # Entry(pass_start[a], 0)
        /\ Entry(agents[a], 0) # Entry(pass_start[h], 0)

\* the knowledge of agent a had every decision of the pass been taken on the
\* knowledge held before the pass
SnapshotKnowledge(a) == FuseShared(pass_start, a, shared[a], 1)[a].knowledge

\* C2: after a pass the knowledge of every agent is what the decisions computed
\* from the knowledge held before the pass give (no partial update is observed).
C2_SnapshotFusion ==
    ci = Cardinality(DOMAIN agents) =>
        \A a \in DOMAIN agents : agents[a].knowledge = SnapshotKnowledge(a)

\* the agents holding P for cid before the pass
MajorityHolders(cid, P) == {h \in DOMAIN pass_start : Entry(pass_start[h], cid) = P}

\* a strict majority hold P for cid and every other agent holds an outlier,
\* farther than 3 from the mean of all the entries
MajorityWithOutliers(cid, P) ==
    LET M == MajorityHolders(cid, P)
    IN  /\ 2 * Cardinality(M) > Cardinality(DOMAIN pass_start)
        /\ \A o \in DOMAIN pass_start \ M :
              /\ Entry(pass_start[o], cid) # <<>>
              /\ ScaledDist2ToMean(pass_start, cid, Entry(pass_start[o], cid))
                    > ScaledRadius2(pass_start, cid)

\* the agents within consensus range of a holder of P whose report is delivered
\* whatever the draw (battery >= 20)
InRangeOfMajority(cid, P) ==
    {a \in DOMAIN agents :
        \E h \in MajorityHolders(cid, P) :
            WithinReach(agents, a, h) /\ 5 * agents[h].battery >= BatteryFull}

C18_ProximityGating ==
    [][ci' = ci + 1 =>
          /\ \A cid \in Keys(shared'[ci]) :
                \E o \in DOMAIN agents :
                    /\ WithinReach(agents, ci, o)
                    /\ Entry(agents[o], cid) = Get(shared'[ci], cid)
          /\ \A o \in DOMAIN agents :
                (WithinReach(agents, ci, o) /\ 5 * agents[o].battery >= BatteryFull)
                    => Keys(agents[o].knowledge) \subseteq Keys(shared'[ci])
          /\ (\A o \in DOMAIN agents : ~WithinReach(agents, ci, o))
                => shared'[ci] = <<>> /\ agents'[ci] = agents[ci]
          /\ \A b \in DOMAIN agents \ {ci} : agents'[b] = agents[b]]_vars

\* C18 witness: an agent has taken its turn with one agent at exactly distance
\* 5, whose report it took, and another farther away holding an entry for a
\* target that it did not collect.
C18_Witness ==
    /\ ci > 0
    /\ \E o \in DOMAIN agents, f \in DOMAIN agents :
          /\ Dist2(agents[ci - 1].pos, agents[o].pos) = 25
          /\ Has(agents[o].knowledge, 0) /\ Has(shared[ci - 1], 0)
          /\ Dist2(agents[ci - 1].pos, agents[f].pos) > 25
          /\ Has(agents[f].knowledge, 1) /\ ~Has(shared[ci - 1], 1)

(***************************************************************************)
(* Claims about share_knowledge                                            *)
(***************************************************************************)
\* C19: share_knowledge returns either the agent's complete knowledge mapping
\* or the empty mapping, never a partial one; when battery >= 20 it always
\* returns the complete mapping, and the empty result is possible only when
\* battery < 20, decided independently at each call.
C19_AllOrNothing ==
    \A a \in DOMAIN agents :
        op = <<"share", a>> =>
            /\ Content(main.report) \in {agents[a].knowledge, <<>>}
            /\ 100 * agents[a].battery >= 20 * BatteryFull
                  => Content(main.report) = agents[a].knowledge

\* C19 witness: an agent with battery < 20 that holds two entries has returned
\* the complete mapping at one call and the empty mapping at the next.
C19_Witness ==
    \E a \in DOMAIN agents :
        /\ op = <<"share", a>>
        /\ 100 * agents[a].battery < 20 * BatteryFull
        /\ Len(agents[a].knowledge) = 2
        /\ main.earlier # Unbound
        /\ Content(main.earlier) = agents[a].knowledge
        /\ Content(main.report) = <<>>

\* C20: the mapping returned by share_knowledge is a snapshot: changing the
\* returned mapping afterwards does not change the agent's knowledge, a later
\* change of the agent's knowledge does not change a mapping returned earlier,
\* and the call itself leaves the agent's knowledge unchanged.
C20_Snapshot ==
    [][/\ op'[1] \in {"share", "write"} =>
            \A a \in DOMAIN agents : agents'[a].knowledge = agents[a].knowledge
       /\ (op'[1] = "observe" /\ main.report # Unbound) =>
            Content(main.report)' = Content(main.report)
       /\ (op'[1] \in {"observe", "write"} /\ main.earlier # Unbound) =>
            Content(main.earlier)' = Content(main.earlier)
       /\ (op'[1] = "share" /\ main.report # Unbound) =>
            Content(main.earlier)' = Content(main.report)]_vars

\* C20 witness: the agent has just sensed while the caller holds a mapping it
\* was handed before and wrote into: the entry the caller wrote is not in the
\* knowledge, and an entry of the knowledge is not in the mapping.
C20_Witness ==
    \E a \in DOMAIN agents :
        /\ op = <<"observe", a>>
        /\ main.report # Unbound
        /\ Has(Content(main.report), 2) /\ ~Has(agents[a].knowledge, 2)
        /\ \E k \in Keys(agents[a].knowledge) : ~Has(Content(main.report), k)

(***************************************************************************)
(* Claims about one agent and its world                                    *)
(***************************************************************************)
\* a coordinate of the grid of environment e
OnGrid(e, p) ==
    /\ 0 <= p[1] /\ p[1] <= e.size - 1
    /\ 0 <= p[2] /\ p[2] <= e.size - 1

\* C5: in every reachable state, whatever sequence of jitter, wind, spiral,
\* target-seeking and random-walk moves led to it, both coordinates of every
\* agent position and of every live target lie in [0, size-1].
C5_Bounded ==
    /\ \A a \in DOMAIN agents : OnGrid(env, agents[a].pos)
    /\ \A i \in 1..Len(env.customers) : OnGrid(env, env.customers[i])

\* C5 witness: the customers have been jittered and an agent off its start
\* cell has just moved onto the last row or column of the grid.
C5_Witness ==
    /\ env.step_count > 0
    /\ \E a \in DOMAIN agents :
          /\ op \in {<<"random", a>>, <<"spiral", a>>, <<"target", a>>}
          /\ agents[a].pos \notin AgentStartCells
          /\ \/ agents[a].pos[1] = env.size - 1
             \/ agents[a].pos[2] = env.size - 1

\* C6: an agent's battery starts full (the 100 of a new agent), never
\* increases from one operation to the next, never goes below 0, and once it is
\* 0 it stays 0.
C6_BatteryMonotone ==
    /\ \A a \in DOMAIN agents : agents[a].battery = BatteryFull
    /\ [][\A a \in DOMAIN agents :
             /\ agents'[a].battery <= agents[a].battery
             /\ agents'[a].battery >= 0
             /\ agents[a].battery = 0 => agents'[a].battery = 0]_vars

\* C6 witness: an agent that has moved is asked to move with a battery the drain
\* takes below zero, and is left depleted at 0.
C6_Witness ==
    \E a \in DOMAIN agents :
        /\ op = <<"dead", a>>
        /\ agents[a].step > 0
        /\ agents[a].battery = 0

\* C7: no operation (wind application, move, ...) changes the position of an
\* agent whose battery is 0.
C7_DepletedStays ==
    [][\A a \in DOMAIN agents :
           agents[a].battery = 0 => agents'[a].pos = agents[a].pos]_vars

\* the spiral-search counters of agent a change in the step
SpiralStepped(a) ==
    \/ agents'[a].steps_in_current_direction # agents[a].steps_in_current_direction
    \/ agents'[a].turns_taken # agents[a].turns_taken

\* C15: in a move call in which the battery is still > 0 after draining, an
\* adversarial agent never uses target-seeking, whatever its knowledge holds,
\* and moves by random walk or spiral search only; an honest agent uses
\* target-seeking exactly when its knowledge is non-empty and spiral search
\* exactly when it is empty.
C15_StateSelection ==
    [][\A a \in DOMAIN agents :
          (op'[2] = a /\ op'[1] \in {"random", "spiral", "target"}) =>
              IF agents[a].is_byzantine
              THEN /\ op'[1] \in {"random", "spiral"}
                   /\ op'[1] = "spiral" <=> SpiralStepped(a)
              ELSE /\ op'[1] = "target" <=> agents[a].knowledge # <<>>
                   /\ op'[1] = "spiral" <=> agents[a].knowledge = <<>>
                   /\ SpiralStepped(a) <=> agents[a].knowledge = <<>>]_vars

\* C15 witness: an adversarial agent that holds knowledge has just moved by
\* random walk (a move that does not sense, so it held it before the move).
C15_Witness ==
    \E a \in DOMAIN agents :
        /\ op = <<"random", a>>
        /\ agents[a].is_byzantine
        /\ agents[a].knowledge # <<>>
        /\ agents[a].battery > 0

\* C16: a move call in which the battery is 0 after draining changes nothing
\* but the battery: the agent's position, heading, spiral-search counters, step
\* counter and knowledge are all unchanged, and no sensing is performed.
C16_DepletedMoveFrame ==
    [][\A a \in DOMAIN agents :
          op' = <<"dead", a>> =>
              /\ agents' = [agents EXCEPT ![a].battery = 0]
              /\ env' = env]_vars

\* C16 witness: an agent off its start cell, holding knowledge and standing
\* within sensing range of a target, has returned from move depleted.
C16_Witness ==
    \E a \in DOMAIN agents :
        /\ op = <<"dead", a>>
        /\ agents[a].battery = 0
        /\ agents[a].knowledge # <<>>
        /\ agents[a].pos \notin AgentStartCells
        /\ \E i \in 1..Len(env.customers) : Dist2(agents[a].pos, env.customers[i]) <= 9

\* the indices (target-IDs) of the live targets within distance 3 of agent a
InReach(a) ==
    {i \in 0..(Len(env.customers) - 1) : Dist2(agents[a].pos, env.customers[i + 1]) <= 9}

\* C17: in every tick in which an agent moves (by spiral search, target-seeking
\* or random walk) it runs observe against its new position before the move
\* call returns, so a target within distance 3 of the post-move position is
\* recorded in that same tick.
C17_SenseAfterMove ==
    \A a \in DOMAIN agents :
        op \in {<<"random", a>>, <<"spiral", a>>, <<"target", a>>} =>
            \A i \in InReach(a) : Has(agents[a].knowledge, i)

(***************************************************************************)
(* Claims about the convergence scenario                                   *)
(***************************************************************************)
\* the agent's entry for target 0 exists and is at a distance of at most 3 of
\* the target's coordinate
NearTarget(ag) ==
    /\ Entry(ag, 0) # <<>>
    /\ Dist2(Entry(ag, 0), env.customers[1]) <= 9

\* the honest agents of the fleet
Honest == {h \in DOMAIN agents : ~agents[h].is_byzantine}

\* C4 as stated: the 4 honest agents being within sensing range of the target
\* and having sensed it, after one consensus pass the entry of all 5 agents for
\* the target exists and lies within distance 3 of the target's coordinate.
C4_AllConverge ==
    ci = Cardinality(DOMAIN agents) =>
        \A a \in DOMAIN agents : NearTarget(agents[a])

\* C4 amended: after the pass the entry of every honest agent exists and lies
\* within distance 3 of the target, and so does the entry of the Byzantine agent
\* when it stands within distance 5 of an honest agent.
C4_ReachedConverge ==
    ci = Cardinality(DOMAIN agents) =>
        \A a \in DOMAIN agents :
            (a \in Honest \/ \E h \in Honest : WithinReach(agents, a, h))
                => NearTarget(agents[a])

\* C4 witness: the Byzantine agent went into the pass with a stored coordinate
\* farther than 3 from the target, within distance 5 of an honest agent, and
\* holds after the pass a coordinate within 3 of the target.
C4_Witness ==
    /\ ci = Cardinality(DOMAIN agents)
    /\ \E b \in DOMAIN agents \ Honest :
          /\ \E h \in Honest : WithinReach(agents, b, h)
          /\ Entry(pass_start[b], 0) # <<>>
          /\ Dist2(Entry(pass_start[b], 0), env.customers[1]) > 9
          /\ NearTarget(agents[b])

(***************************************************************************)
(* Claims about sensing                                                    *)
(***************************************************************************)
\* the indices (target-IDs) of the live targets within distance 3 of agent a
InSight(a) ==
    {i \in 0..(Len(env.customers) - 1) : Dist2(agents[a].pos, env.customers[i + 1]) <= 9}

\* C8: immediately after an honest agent runs observe, its entry for every live
\* target within distance 3 of its position is the target's exact coordinate.
C8_HonestFidelity ==
    \A a \in DOMAIN agents :
        (op = <<"observe", a>> /\ ~agents[a].is_byzantine) =>
            \A i \in InSight(a) : Entry(agents[a], i) = env.customers[i + 1]

\* C8 witness: an honest agent has just observed, one target being at exactly
\* distance 3 (recorded) and the other out of range (not recorded).
C8_Witness ==
    \E a \in DOMAIN agents :
        /\ op = <<"observe", a>> /\ ~agents[a].is_byzantine
        /\ \E i \in InSight(a) :
              /\ Dist2(agents[a].pos, env.customers[i + 1]) = 9
              /\ Entry(agents[a], i) = env.customers[i + 1]
        /\ \E j \in 0..(Len(env.customers) - 1) :
              j \notin InSight(a) /\ Entry(agents[a], j) = <<>>

\* C9: immediately after a Byzantine agent runs observe, the coordinate it
\* stores for every target within distance 3 differs from the target's
\* coordinate by at most 5 on each axis and lies in [0, size-1] on both axes.
C9_DistortionBound ==
    \A a \in DOMAIN agents :
        (op = <<"observe", a>> /\ agents[a].is_byzantine) =>
            \A i \in InSight(a) :
                /\ Entry(agents[a], i) # <<>>
                /\ Abs(Entry(agents[a], i)[1] - env.customers[i + 1][1]) <= 5
                /\ Abs(Entry(agents[a], i)[2] - env.customers[i + 1][2]) <= 5
                /\ OnGrid(env, Entry(agents[a], i))

\* C9 witness: a Byzantine agent has just observed and stored for a target in
\* range a coordinate 5 off on one axis, and for a target in range near the
\* edge a coordinate that the grid bound cut short.
C9_Witness ==
    \E a \in DOMAIN agents :
        /\ op = <<"observe", a>> /\ agents[a].is_byzantine
        /\ \E i \in InSight(a) :
              Abs(Entry(agents[a], i)[1] - env.customers[i + 1][1]) = 5
        /\ \E i \in InSight(a) :
              /\ Entry(agents[a], i)[2] = env.size - 1
              /\ Entry(agents[a], i)[2] - env.customers[i + 1][2] \in 1..4

(***************************************************************************)
(* Claims about the run of main()                                          *)
(***************************************************************************)
\* the completion condition of the run under way holds: the step counter has
\* reached the tick budget or no target remains
Completed == main.step >= TickBudget \/ Len(env.customers) = 0

\* C10: a run executes at most TickBudget ticks, and once the completion
\* condition has held after a tick no further tick of that run begins,
\* whatever key or mouse events arrive.
C10_NoTickAfterCompletion ==
    [][/\ main'.step <= TickBudget
       /\ (main.pc = "events" /\ Completed) => main'.pc # "customers"]_vars

\* the live targets on the cell of agent a
TargetsUnder(a) == {i \in 1..Len(env.customers) : env.customers[i] = agents[a].pos}

\* C11: a target is removed in the tick in which an agent's position coincides
\* with it: after the delivery-detection step of any tick no live target has
\* the same position as any agent.
C11_NoTargetUnderAgent ==
    op = <<"delivery", 0>> => \A a \in DOMAIN agents : TargetsUnder(a) = {}

\* the outcomes of a move call, as recorded in op
MoveOps == {"random", "spiral", "target", "dead"}

\* the index of the last agent of the fleet
LastAgent == Cardinality(DOMAIN agents) - 1

\* C12: within a tick the consensus pass runs only after every agent has
\* completed its move and sensing for that tick (the agents move in the order
\* of the fleet, the first after the world's step), delivery detection runs
\* after the consensus pass and uses the agents' post-movement positions, and
\* the metric is computed after delivery detection, on the world it leaves.
C12_TickOrder ==
    [][/\ op'[1] \in MoveOps =>
            IF op'[2] = 0 THEN op = <<"customers", 0>>
            ELSE op[1] \in MoveOps /\ op[2] = op'[2] - 1
       /\ op'[1] = "consensus" =>
            IF op'[2] = 0 THEN op[1] \in MoveOps /\ op[2] = LastAgent
            ELSE op = <<"consensus", op'[2] - 1>>
       /\ op' = <<"delivery", 0>> =>
            /\ op = <<"consensus", LastAgent>>
            /\ agents' = agents
            /\ Len(env'.customers) < Len(env.customers)
                  <=> \E a \in DOMAIN agents : TargetsUnder(a) # {}
            /\ \A i \in 1..Len(env'.customers) :
                  \E k \in 1..Len(env.customers) : env'.customers[i] = env.customers[k]
            /\ main'.current_ratio = CompetitiveRatio(agents', env')]_vars

\* C12 witness: a tick has ended in which every agent moved, a target was
\* delivered, and the metric was computed on the world without it.
C12_Witness ==
    /\ op = <<"delivery", 0>>
    /\ main.delivered_count > 0
    /\ \A a \in DOMAIN agents : agents[a].step > 0
    /\ main.current_ratio.kind = "quotient"
    /\ Len(env.customers) = 1

(***************************************************************************)
(* Claims about the metric                                                 *)
(***************************************************************************)
\* the sum of the step counters of the agents 0..n
RECURSIVE StepSumTo(_)
StepSumTo(n) == IF n < 0 THEN 0 ELSE agents[n].step + StepSumTo(n - 1)

\* every agent stands on the cell of some live target
AllOnTargets == \A a \in DOMAIN agents : TargetsUnder(a) # {}

\* the value is not negative: a step sum that is not, or a quotient of one by a
\* sum of roots of naturals of which one at least is positive, or +infinity
NonNegative(r) ==
    \/ r.kind = "inf"
    \/ r.kind = "steps" /\ r.total_steps >= 0
    \/ /\ r.kind = "quotient" /\ r.total_steps >= 0
       /\ \A a \in DOMAIN r.optimal : r.optimal[a] >= 0
       /\ \E a \in DOMAIN r.optimal : r.optimal[a] > 0

\* C13: competitive_ratio is never negative, and it is positive infinity
\* exactly when at least one target remains and every agent's position
\* coincides with the position of some live target.
C13_MetricFloor ==
    op = <<"metric", 0>> =>
        /\ NonNegative(main.current_ratio)
        /\ main.current_ratio.kind = "inf" <=> (Len(env.customers) > 0 /\ AllOnTargets)

\* C13 witness: the metric has been computed as infinity with the two agents
\* on the cells of two different live targets.
C13_Witness ==
    /\ op = <<"metric", 0>>
    /\ main.current_ratio.kind = "inf"
    /\ agents[0].pos # agents[1].pos
    /\ Len(env.customers) = 2

\* C14: when no target remains in the world, competitive_ratio returns exactly
\* the sum of the step counters of all agents (no division is performed).
C14_RawStepSum ==
    (op = <<"metric", 0>> /\ Len(env.customers) = 0) =>
        main.current_ratio =
            [kind |-> "steps", total_steps |-> StepSumTo(Cardinality(DOMAIN agents) - 1)]

\* C14 witness: the metric has been computed in a world without targets for
\* agents that have taken 1 and 3 steps, and is 4.
C14_Witness ==
    /\ op = <<"metric", 0>>
    /\ Len(env.customers) = 0
    /\ agents[0].step = 1 /\ agents[1].step = 3
    /\ main.current_ratio = [kind |-> "steps", total_steps |-> 4]


(***************************************************************************)
(* C21  Target cadence: in the driver the targets are jittered on every    *)
(* tick whose index is a multiple of 5 (ticks 0, 5, 10, ...) and on no     *)
(* other tick.  The jitter loop of move_customers runs in a tick when the  *)
(* call is made and step_count is a multiple of 5 at the call.             *)
(***************************************************************************)
\* the customers step of a tick runs the jitter loop of move_customers
JitterRuns ==
    /\ env'.step_count = env.step_count + 1
    /\ env.step_count % CustomerPeriod = 0

C21_TargetCadence ==
    [][main.pc = "customers" => (main.step % 5 = 0 <=> JitterRuns)]_vars

(***************************************************************************)
(* C22  Stable target identity: the index of a live target in the world's  *)
(* target sequence does not change while the target remains in the world;  *)
(* the delivery of one target does not renumber any other live target.     *)
(* The delivery check moves no customer, so a customer that keeps its      *)
(* index is found after the check at the index where it was before.        *)
(***************************************************************************)
C22_StableIdentity ==
    [][op' = <<"delivery", 0>> =>
          \A i \in 1..Len(env'.customers) : env'.customers[i] = env.customers[i]]_vars

(***************************************************************************)
(* C23  Spiral arm growth: across any sequence of spiral-search steps the  *)
(* direction index stays in {0,1,2,3} and cycles 0, 1, 2, 3, 0; the agent  *)
(* turns after spiral_length steps in the current direction;               *)
(* spiral_length never decreases and grows by exactly 1 on every second    *)
(* completed turn; after every step spiral_length = 1 + floor(turns_taken  *)
(* / 2) and steps_in_current_direction < spiral_length.                    *)
(*                                                                         *)
(* As stated, the direction index changes only when a turn is completed.   *)
(* In the code a step that the grid boundary holds back advances the       *)
(* index once more, without a turn being counted.                          *)
(***************************************************************************)
\* the direction index of `after` is that of `before` advanced n times
Advanced(before, after, n) == after.direction = (before.direction + n) % 4

ArmInvariant(ag) ==
    /\ ag.direction \in 0..3
    /\ ag.spiral_length = 1 + ag.turns_taken \div 2
    /\ ag.steps_in_current_direction < ag.spiral_length

\* one spiral step from `before` to `after`, `held` telling whether the grid
\* boundary has held the step back
ArmStep(before, after, held) ==
    LET turned == after.turns_taken = before.turns_taken + 1
    IN  /\ after.turns_taken \in {before.turns_taken, before.turns_taken + 1}
        /\ turned <=> before.steps_in_current_direction + 1 = before.spiral_length
        /\ Advanced(before, after, (IF turned THEN 1 ELSE 0) + (IF held THEN 1 ELSE 0))
        /\ after.spiral_length =
              before.spiral_length + (IF turned /\ after.turns_taken % 2 = 0 THEN 1 ELSE 0)

\* the statement as it stands: the index advances at the turns and only there
C23_TurnsAfterArmOnly ==
    /\ [](\A a \in DOMAIN agents : ArmInvariant(agents[a]))
    /\ [][\A a \in DOMAIN agents :
            op' = <<"spiral", a>> => ArmStep(agents[a], agents'[a], FALSE)]_vars

\* the statement with the step that the boundary holds back
C23_SpiralArmGrowth ==
    /\ [](\A a \in DOMAIN agents : ArmInvariant(agents[a]))
    /\ [][\A a \in DOMAIN agents :
            op' = <<"spiral", a>> =>
                ArmStep(agents[a], agents'[a], Clamped(agents[a], env))]_vars

\* the arm has reached the length 4 (six turns, of which every second one has
\* lengthened it) on a walk that the boundary has held back
C23_Witness ==
    \E a \in DOMAIN agents :
        /\ op = <<"spiral", a>>
        /\ agents[a].turns_taken = 6
        /\ agents[a].spiral_length = 4
        /\ main.clamped

(***************************************************************************)
(* C24  Spiral coverage: for an agent that stays in spiral search, the     *)
(* bounding box of the cells it has visited grows with each completed      *)
(* spiral arm as long as no move has been clamped by the grid boundary;    *)
(* the box never shrinks and the arm length never decreases.               *)
(***************************************************************************)
\* the box of corners lo2, hi2 holds the box of corners lo1, hi1
BoxHolds(lo2, hi2, lo1, hi1) ==
    /\ lo2[1] <= lo1[1] /\ lo2[2] <= lo1[2]
    /\ hi2[1] >= hi1[1] /\ hi2[2] >= hi1[2]

C24_SpiralCoverage ==
    [][\A a \in DOMAIN agents :
          op' = <<"spiral", a>> =>
            /\ BoxHolds(main'.lo, main'.hi, main.lo, main.hi)
            /\ agents'[a].spiral_length >= agents[a].spiral_length
            /\ (agents'[a].turns_taken # agents[a].turns_taken /\ ~main'.clamped) =>
                  /\ BoxHolds(main'.arm_lo, main'.arm_hi, main.arm_lo, main.arm_hi)
                  /\ <<main'.arm_lo, main'.arm_hi>> # <<main.arm_lo, main.arm_hi>>]_vars

\* six arms completed without a clamp: the box is 4 cells wide and 4 high
C24_Witness ==
    \E a \in DOMAIN agents :
        /\ op = <<"spiral", a>>
        /\ agents[a].turns_taken = 6
        /\ ~main.clamped
        /\ main.hi[1] - main.lo[1] = 3
        /\ main.hi[2] - main.lo[2] = 3

(***************************************************************************)
(* C25  Configuration violations fail fast at construction: creating the   *)
(* world with a zero or negative grid size or a zero or negative target    *)
(* count ends in an error and no world is produced.                        *)
(***************************************************************************)
C25_FailFast ==
    (op = <<"construct", 0>> /\ (main.size <= 0 \/ main.num_customers <= 0)) =>
        (main.raised /\ env = Unbound)

(***************************************************************************)
(* C26  Quorum counting at the boundary: a collected coordinate whose      *)
(* distance to the fleet-wide mean is exactly 3 counts toward the quorum   *)
(* (two holders at (0,0) and (6,0) in a fleet of 2 or 3 agents reach the   *)
(* quorum of 1 and the mean (3,0) is accepted).                            *)
(***************************************************************************)
\* every entry for cid in fleet A lies at exactly the distance 3 of their mean
OnBoundary(A, cid) ==
    /\ EntryHolders(A, cid) # {}
    /\ \A h \in EntryHolders(A, cid) :
          ScaledDist2ToMean(A, cid, Entry(A[h], cid)) = ScaledRadius2(A, cid)

\* as stated: the entries at exactly 3 count, so they meet a quorum that is
\* not above their number, and the receiving agent takes the mean
C26_BoundaryCounts ==
    [][ci' = ci + 1 =>
          \A cid \in Keys(shared'[ci]) :
              (/\ OnBoundary(agents, cid)
               /\ Cardinality(EntryHolders(agents, cid)) >= Cardinality(DOMAIN agents) \div 2)
              => Entry(agents'[ci], cid) = TruncatedMean(agents, cid)]_vars

\* amended: the entries at exactly 3 do not count, so they meet no quorum of
\* 1 or more, and the receiving agent's entry is left as it was
C26_BoundaryExcluded ==
    [][ci' = ci + 1 =>
          \A cid \in Keys(shared'[ci]) :
              (OnBoundary(agents, cid) /\ Cardinality(DOMAIN agents) \div 2 >= 1)
              => Entry(agents'[ci], cid) = Entry(agents[ci], cid)]_vars

\* the first receiving agent holds (0,0), was sent the entries of a fleet that
\* holds (0,0) and (6,0), each 3 away of the mean (3,0), and has kept (0,0)
C26_Witness ==
    /\ ci = 1
    /\ Has(shared[0], 0)
    /\ OnBoundary(pass_start, 0)
    /\ \E h \in DOMAIN pass_start : Entry(pass_start[h], 0) = <<6, 0>>
    /\ Entry(pass_start[0], 0) = <<0, 0>>
    /\ Entry(agents[0], 0) = <<0, 0>>

(***************************************************************************)
(* C27  Target selection in target-seeking: the chosen knowledge entry is  *)
(* one whose stored coordinate has minimum Euclidean distance to the       *)
(* agent's current position, and among several entries at that minimum     *)
(* distance the one that comes first in the mapping's insertion order is   *)
(* chosen.                                                                 *)
(***************************************************************************)
\* the entry of index n is a nearest one of knowledge k to the cell p, and no
\* entry before it is as near
FirstNearest(k, p, n) ==
    /\ \A i \in 1..Len(k) : Dist2(k[n][2], p) <= Dist2(k[i][2], p)
    /\ \A i \in 1..(n - 1) : Dist2(k[n][2], p) < Dist2(k[i][2], p)

C27_TargetSelection ==
    [][\A a \in DOMAIN agents :
          (op' = <<"target", a>> /\ agents'[a].step = agents[a].step + 1) =>
              \E n \in 1..Len(agents[a].knowledge) :
                  /\ agents[a].knowledge[n][1] = main'.nearest_customer_id
                  /\ FirstNearest(agents[a].knowledge, agents[a].pos, n)]_vars

\* the agent at (2,2) with the entries 3: (3,1), 1: (1,3), 2: (1,1), all at
\* the same distance, has chosen the entry 3 and turned toward (3,1)
C27_Witness ==
    \E a \in DOMAIN agents :
        /\ op = <<"target", a>>
        /\ agents[a].step = 1
        /\ Len(agents[a].knowledge) = 3
        /\ agents[a].knowledge[1] = <<3, <<3, 1>>>>
        /\ main.nearest_customer_id = 3
        /\ main.target_angle = 315 * Degree

(***************************************************************************)
(* C28  Gradual turning: in every spiral-search or target-seeking step the *)
(* heading stays in [0,360) and moves toward the wanted angle by at most   *)
(* 15 degrees along the shorter rotational direction, the signed angular   *)
(* difference used lying in (-180,180] (half a turn is +180, a positive    *)
(* turn); the heading is set exactly to the wanted angle when the          *)
(* difference is at most 15 degrees in absolute value.                     *)
(*                                                                         *)
(* In the code the difference lies in [-180,180): half a turn is -180, a   *)
(* negative turn.                                                          *)
(***************************************************************************)
\* the signed difference from the heading r to the wanted angle w, in
\* (-180,180] or, halfNegative, in [-180,180)
SignedDiff(w, r, halfNegative) ==
    LET m == (w - r) % FullTurn
    IN  IF m > 180 * Degree \/ (halfNegative /\ m = 180 * Degree) THEN m - FullTurn ELSE m

\* the heading r2 is what a gradual turn makes of the heading r for the
\* signed difference d to the wanted angle w
GradualTurn(r, r2, w, d) ==
    /\ r2 >= 0 /\ r2 < FullTurn
    /\ Abs(d) <= 15 * Degree => r2 = w
    /\ d > 15 * Degree => r2 = (r + 15 * Degree) % FullTurn
    /\ d < -(15 * Degree) => r2 = (r - 15 * Degree) % FullTurn

TurningRule(halfNegative) ==
    \A a \in DOMAIN agents :
        (op' \in {<<"target", a>>, <<"spiral", a>>} /\ agents'[a].step = agents[a].step + 1) =>
            GradualTurn(agents[a].rotation, agents'[a].rotation, main'.target_angle,
                        SignedDiff(main'.target_angle, agents[a].rotation, halfNegative))

\* as stated: half a turn is a positive turn
C28_HalfTurnPositive == [][TurningRule(FALSE)]_vars

\* amended: half a turn is a negative turn
C28_GradualTurning == [][TurningRule(TRUE)]_vars

\* an agent of heading 0 whose target lay straight behind it (a wanted angle
\* of 180, half a turn away) has turned to the heading 345
C28_Witness ==
    \E a \in DOMAIN agents :
        /\ op = <<"target", a>>
        /\ agents[a].step = 1
        /\ main.target_angle = 180 * Degree
        /\ main.angle_diff = -(180 * Degree)
        /\ agents[a].rotation = 345 * Degree

(***************************************************************************)
(* C29  Spiral boundary retry: when the clamped move in the current        *)
(* direction leaves the position unchanged, the direction index advances   *)
(* by 1 modulo 4 and the position update is recomputed exactly once in the *)
(* new direction before the position is committed; on a grid of size >= 2  *)
(* such a spiral step therefore always moves the agent to a different      *)
(* cell.                                                                   *)
(*                                                                         *)
(* In the code the agent stays where it is when the new direction leads    *)
(* off the grid as well: in a corner.                                      *)
(***************************************************************************)
\* the neighbour of the cell p in the direction of index d
Neighbour(p, d) == <<p[1] + SpiralDirections[d + 1][1], p[2] + SpiralDirections[d + 1][2]>>

\* the retry of a step of `before` that the boundary has held back: the
\* direction index is advanced (and once more if a turn is counted), and the
\* position committed is the neighbour in the new direction if the grid has
\* it; `always` asks the agent to have moved
RetryStep(before, after, always) ==
    LET d == (before.direction + 1) % 4
        turned == after.turns_taken # before.turns_taken
    IN  /\ env.size >= 2
        /\ Advanced(before, after, IF turned THEN 2 ELSE 1)
        /\ after.pos = IF OnGrid(env, Neighbour(before.pos, d))
                       THEN Neighbour(before.pos, d) ELSE before.pos
        /\ always => after.pos # before.pos

\* as stated: the retried step always moves the agent
C29_RetryAlwaysMoves ==
    [][\A a \in DOMAIN agents :
          (op' = <<"spiral", a>> /\ ~OnGrid(env, Neighbour(agents[a].pos, agents[a].direction)))
          => RetryStep(agents[a], agents'[a], TRUE)]_vars

\* amended: the retried step moves the agent unless the new direction leads
\* off the grid as well
C29_BoundaryRetry ==
    [][\A a \in DOMAIN agents :
          (op' = <<"spiral", a>> /\ ~OnGrid(env, Neighbour(agents[a].pos, agents[a].direction)))
          => RetryStep(agents[a], agents'[a], FALSE)]_vars
\* the first step of an agent on the upper boundary was held back, and the
\* retry has moved it one cell along the boundary
C29_Witness ==
    \E a \in DOMAIN agents :
        /\ op = <<"spiral", a>>
        /\ agents[a].step = 1
        /\ main.clamped
        /\ agents[a].pos = <<main.lo[1] + 1, env.size - 1>>
        /\ agents[a].direction = 2

(***************************************************************************)
(* C30  Target-seeking makes progress: an honest agent with battery        *)
(* remaining whose only knowledge entry is the true coordinate of a target *)
(* that does not move eventually occupies that coordinate, from any start  *)
(* cell and any initial heading, whether the jitter fires or not.          *)
(***************************************************************************)
C30_ReachesTarget ==
    <>(\A a \in DOMAIN agents : agents[a].pos = env.customers[1])

(***************************************************************************)
(* C31  Unit step: in a single move call (spiral search, target-seeking    *)
(* with or without jitter, or random walk) each coordinate of the agent's  *)
(* position changes by at most 1.                                          *)
(***************************************************************************)
\* no coordinate of q is further than 1 from that of p
WithinOne(p, q) == Abs(q[1] - p[1]) <= 1 /\ Abs(q[2] - p[2]) <= 1

C31_UnitStep ==
    [][\A a \in DOMAIN agents :
          op' \in {<<"random", a>>, <<"target", a>>, <<"spiral", a>>} =>
              WithinOne(agents[a].pos, agents'[a].pos)]_vars

(***************************************************************************)
(* C32  Delivery accounting: throughout a run delivered_count plus the     *)
(* number of live targets equals the number of targets at the start of the *)
(* run; in one delivery-detection step each agent removes at most one      *)
(* target, and the index it removes is that of a target at the agent's own *)
(* position.                                                               *)
(***************************************************************************)
\* the list cs without its entries of the indices in S, from the i-th on
RECURSIVE Without(_, _, _)
Without(cs, S, i) ==
    IF i > Len(cs) THEN <<>>
    ELSE (IF i \in S THEN <<>> ELSE <<cs[i]>>) \o Without(cs, S, i + 1)

\* the customers of the indices in S are removed, each by an agent of its own
\* that stands on the customer's cell
RemovedByAgents(S) ==
    /\ env'.customers = Without(env.customers, S, 1)
    /\ main'.delivered_count = main.delivered_count + Cardinality(S)
    /\ \E f \in [S -> DOMAIN agents] :
          /\ \A i, j \in S : f[i] = f[j] => i = j
          /\ \A i \in S : agents[f[i]].pos = env.customers[i]

C32_DeliveryAccounting ==
    /\ [](main.delivered_count + Len(env.customers) = main.initial_customer_count)
    /\ [][op' = <<"delivery", 0>> =>
            \E S \in SUBSET (1..Len(env.customers)) : RemovedByAgents(S)]_vars

\* an agent stood on a cell with two customers: one is delivered, one is left
C32_Witness ==
    /\ op = <<"delivery", 0>>
    /\ main.delivered_count = 1
    /\ Len(env.customers) = 1
    /\ \E a \in DOMAIN agents : agents[a].pos = env.customers[1]

(***************************************************************************)
(* C33  A consensus pass adds a target-ID to an agent's knowledge that the *)
(* agent did not hold before only if at least floor(fleetSize/2) agents of *)
(* the fleet hold an entry for that ID at the moment of fusion; with the   *)
(* driver's fleet of 5, an entry held by a single agent is never           *)
(* propagated to any other agent.                                          *)
(***************************************************************************)
\* the target-IDs that the step adds to the knowledge of agent a
AddedKeys(a) == Keys(agents'[a].knowledge) \ Keys(agents[a].knowledge)

C33_QuorumToAdd ==
    [][ci' = ci + 1 =>
          /\ \A cid \in AddedKeys(ci) :
                Cardinality(EntryHolders(agents, cid)) >= Cardinality(DOMAIN agents) \div 2
          /\ \A a \in DOMAIN agents :
                \A cid \in AddedKeys(a) :
                    Cardinality(DOMAIN agents) = 5 =>
                        Cardinality(EntryHolders(agents, cid)) >= 2]_vars

\* the first receiving agent held no entry for the target 0, two agents of the
\* five did, and it has taken their mean
C33_Witness ==
    /\ ci = 1
    /\ Cardinality(DOMAIN agents) = 5
    /\ Entry(pass_start[0], 0) = <<>>
    /\ Cardinality(EntryHolders(pass_start, 0)) = 2
    /\ Entry(agents[0], 0) # <<>>

(***************************************************************************)
(* C34  The coordinates carried in received reports do not influence       *)
(* fusion: for a receiving agent, two consensus passes that start from the *)
(* same fleet knowledge and in which the neighbours' reports contain the   *)
(* same set of target-IDs but different coordinates write identical values *)
(* into the receiving agent's knowledge.                                   *)
(***************************************************************************)
\* the dicts k1 and k2 hold the same values under the same keys
SameEntries(k1, k2) ==
    /\ Keys(k1) = Keys(k2)
    /\ \A cid \in Keys(k1) : Get(k1, cid) = Get(k2, cid)

C34_ReportsCarryIdsOnly ==
    main.pc = "fused" => SameEntries(main.first, main.second)

\* two reports of the target 0 with different coordinates, and a fusion that
\* has written a value for it that is neither of them
C34_Witness ==
    /\ main.pc = "fused"
    /\ Has(main.first_shared, 0) /\ Has(main.second_shared, 0)
    /\ Get(main.first_shared, 0) # Get(main.second_shared, 0)
    /\ Has(main.first, 0)
    /\ Entry(agents[main.receiver], 0) # Get(main.first, 0)
    /\ Get(main.first, 0) \notin ReportCells

(***************************************************************************)
(* C35  Whenever the number of targets at the start of the run does not    *)
(* exceed the number of agents, the competitive ratio computed after the   *)
(* delivery-detection step of a tick is never positive infinity: at least  *)
(* one agent is not on the cell of a live target at that point.            *)
(***************************************************************************)
\* agent a stands on the cell of a customer of the world
OnLiveTarget(a) == \E i \in 1..Len(env.customers) : env.customers[i] = agents[a].pos

C35_RatioFiniteAfterDelivery ==
    (op = <<"delivery", 0>> /\ main.initial_customer_count <= Cardinality(DOMAIN agents)) =>
        /\ main.current_ratio.kind # "inf"
        /\ Len(env.customers) > 0 => \E a \in DOMAIN agents : ~OnLiveTarget(a)

\* an agent has delivered one of the two customers of its cell and stands on
\* the other; the ratio of the tick is a quotient
C35_Witness ==
    /\ op = <<"delivery", 0>>
    /\ main.delivered_count = 1
    /\ \E a \in DOMAIN agents : OnLiveTarget(a)
    /\ main.current_ratio.kind = "quotient"

\* agent a has made its move call of the tick in progress
MovedThisTick(a) ==
    \/ main.pc = "agents" /\ a < main.ai
    \/ main.pc \in {"consensus", "delivery"}

\* the step taken is a move call of agent a that leaves its battery above 0
MovesOnBattery(a) ==
    op'[1] \in MoveOps /\ op'[2] = a /\ agents'[a].battery > 0

\* C36: an agent's step counter starts at 0, increases by exactly 1 in every
\* move call in which the battery is still above 0 after draining (whichever
\* movement is taken, and also when the clamped position did not change), and
\* is changed by nothing else (wind, sensing, consensus, delivery); hence it
\* never exceeds the number of ticks executed.
C36_StepCounting ==
    /\ [](/\ op = <<"init", 0>> => \A a \in DOMAIN agents : agents[a].step = 0
          /\ \A a \in DOMAIN agents :
                agents[a].step <= main.step + (IF MovedThisTick(a) THEN 1 ELSE 0))
    /\ [][op' # <<"init", 0>> =>
            \A a \in DOMAIN agents :
                agents'[a].step =
                    agents[a].step + (IF MovesOnBattery(a) THEN 1 ELSE 0)]_vars

\* a move call on a live battery that the clamp holds on the agent's cell has
\* counted a step
C36_Witness ==
    /\ op[1] \in {"random", "spiral", "target"}
    /\ agents[op[2]].step = 1
    /\ agents[op[2]].battery > 0
    /\ agents[op[2]].pos = <<op[2] * AgentSpacing, op[2] * AgentSpacing>>
    /\ main.step = 0


\* the target-IDs for which agent a holds an entry
KnownIds(a) == Keys(agents[a].knowledge)

\* the step taken is a move call of the honest agent a, made with an entry in
\* its knowledge and a battery that is above 0 after draining
MovesKnowing(a) ==
    /\ op'[1] \in MoveOps /\ op'[2] = a
    /\ ~agents[a].is_byzantine
    /\ agents[a].knowledge # EmptyDict
    /\ agents'[a].battery > 0

\* C37: knowledge entries are never deleted: across sensing, consensus and
\* delivery steps the set of target-IDs in an agent's knowledge only grows
\* (the entries for a delivered target remain), and an honest agent whose
\* knowledge is once non-empty uses target-seeking in every later tick in
\* which it has battery.
C37_KnowledgeKept ==
    [][op' # <<"init", 0>> =>
        \A a \in DOMAIN agents :
            /\ KnownIds(a) \subseteq Keys(agents'[a].knowledge)
            /\ MovesKnowing(a) => op'[1] = "target"]_vars

\* an honest agent seeks a target on an entry whose target-ID no longer names
\* a customer of the world, after a delivery
C37_Witness ==
    /\ op[1] = "target"
    /\ ~agents[op[2]].is_byzantine
    /\ main.delivered_count >= 1
    /\ \E cid \in KnownIds(op[2]) : cid >= Len(env.customers)


\* the largest drain of one move call: 0.12 * 1.1 of a point
LargestDrain == (1200 * 11) \div FactorScale

\* C38: within the first 100 ticks of a run every agent's battery stays at or
\* above 20 (the per-tick drain is at most 0.12 * 1.1 from a start of 100), so
\* in those ticks no agent is ever depleted and share_knowledge never returns
\* the empty low-battery report.
C38_BatteryLastsTheRun ==
    main.step <= RunTicks =>
        /\ \A a \in DOMAIN agents :
              /\ agents[a].battery >= LowBatteryPct * ChargeUnit
              /\ agents[a].battery >= FullCharge - (agents[a].step * LargestDrain)
              /\ agents[a].battery > 0
        /\ op[1] # "dead"
        /\ op[1] = "share" => ~main.report.low

\* the last tick of the run, every drain having been the largest one
C38_Witness ==
    /\ main.step = RunTicks
    /\ op = <<"share", 0>>
    /\ agents[0].step = RunTicks
    /\ agents[0].battery = FullCharge - RunTicks * LargestDrain

====
